---- MODULE Spec2Model ----
(***************************************************************************)
(* BsonParser (lib/cuckoo/common/netlog.py): one decoding session of the   *)
(* self-describing protocol, its call-chain correlation and its trigger    *)
(* engine.  One session reads messages in a sequential loop; the only      *)
(* places where it blocks are call_volshell (waiting for /tmp/marker) and  *)
(* breakpoint (waiting in the debugger).                                   *)
(*                                                                         *)
(* The handler object (Call History, fire counts, breakpoint sets, the     *)
(* suspend/resume control) is a collaborator whose code is not part of the *)
(* two source files; it is modelled from its contract in spec.md section 6.*)
(***************************************************************************)
EXTENDS Integers, Sequences, FiniteSets, TLC

(***************************************************************************)
(* Bounds of the model.                                                    *)
(***************************************************************************)
MaxHist == 4        \* calls a session records in Call History
MaxTimes == 1       \* initial fire count of a rule that is not exhausted

(***************************************************************************)
(* API names the code branches on, and the synthesized chain names.        *)
(***************************************************************************)
SetCtxResume == "NtSetContextThread -> NtResumeThread"
WriteRemote == "WriteProcessMemory -> CreateRemoteThread"
WriteRemoteLoad == "WriteProcessMemory -> CreateRemoteThread -> LoadLibrary"
NoTrigger == "(none)"

\* The names whose branch is an unconditional execute_trigger_parameters.
DirectMatch ==
    {"monitorCPU", "NtCreateProcess", "monitorUnpacking", "UnhookWindowsHookEx",
     "StartServiceA", "StartServiceW", "SetWinEventHook", "socket",
     "SetWindowsHookExW", "SetWindowsHookExA", "ZwLoadDriver", "NtCreateMutant"}

(***************************************************************************)
(* File names are sequences of path components, lower-cased by the code    *)
(* before the substring tests; the tests are modelled on the components.   *)
(***************************************************************************)
FileNames ==
    { <<"c:\\", "docs", "a.txt">>,
      <<"c:\\", "drivers", "rk.sys">>,
      <<"c:\\", "system32", "rk.sys">>,
      <<"pipe">> }

HasSys(f) == \E i \in 1..Len(f) : f[i] \in {"rk.sys"}
HasDrive(f) == \E i \in 1..Len(f) : f[i] = "c:\\"
HasSystem32(f) == \E i \in 1..Len(f) : f[i] = "system32"

(***************************************************************************)
(* The monitors a session may be reading from.  table: the monitor's API   *)
(* table, index -> API name (an info message for index i announces the API *)
(* numbered i); sends: the argument lists of its calls of each index;      *)
(* side: the message types it sends besides calls and the first info       *)
(* message of an index ("info": it announces an index again; "large": it   *)
(* sends debug messages in frames at and above the length ceiling; "aux":  *)
(* its calls may carry auxiliary fields; "rename": it announces an index   *)
(* again with the schema of another API of its table).                     *)
(***************************************************************************)
Monitor(table, sends, side) == [table |-> table, sends |-> sends, side |-> side]

\* WriteProcessMemory(ProcessHandle, Buffer, ProcessId, CurrProcessId)
Write(h, p, c) == <<h, <<171>>, p, c>>

Monitors ==
    { Monitor(<<"WriteProcessMemory", "CreateRemoteThread", "LdrLoadDll">>,
              << {Write(1, 2, 2), Write(2, 2, 2)}, { <<1, 1>> }, { <<1>> } >>,
              {}),
      Monitor(<<"WriteProcessMemory", "CreateRemoteThread", "LdrLoadDll">>,
              << {Write(1, 2, 1)}, { <<1, 1>> }, { <<2>> } >>, {}),
      Monitor(<<"NtSetContextThread", "NtResumeThread">>,
              << { <<1>>, <<2>> }, { <<2>> } >>, {}),
      Monitor(<<"socket", "NtClose">>,
              << { <<2>>, <<2, 0>> }, { <<-1>> } >>, {"large"}),
      Monitor(<<"NtClose", "__thread__">>,
              << { <<1>> }, { <<1>> } >>, {"rename"}),
      Monitor(<<"__process__", "__thread__", "NtClose">>,
              << { <<0, 0, 2, 1, <<"c:\\", "a.exe">> >> }, { <<2>> },
                 { <<1>> } >>,
              {"info", "debug", "new_process"}),
      Monitor(<<"VirtualProtectEx">>,
              << { <<1, 1, 1, 0>>, <<1, 2, 0, 5>> } >>, {"aux"}),
      Monitor(<<"NtCreateFile">>,
              << { <<f>> : f \in FileNames } >>, {}) }

Indices(mon) == DOMAIN mon.table

\* Argument names of each API, as the monitor's info message gives them.
ArgInfo(name) ==
    CASE name = "WriteProcessMemory" ->
           <<"ProcessHandle", "Buffer", "ProcessId", "CurrProcessId">>
      [] name = "CreateRemoteThread" -> <<"ProcessHandle", "ProcessId">>
      [] name = "LdrLoadDll" -> <<"ProcessId">>
      [] name = "NtSetContextThread" -> <<"ThreadHandle">>
      [] name = "NtResumeThread" -> <<"ThreadHandle">>
      [] name = "VirtualProtectEx" ->
           <<"CurrentProcessId", "ProcessId", "is_success", "retval">>
      [] name = "NtCreateFile" -> <<"FileName">>
      [] name = "__process__" ->
           <<"TimeLow", "TimeHigh", "ProcessIdentifier",
             "ParentProcessIdentifier", "ModulePath">>
      [] name = "__thread__" -> <<"ProcessIdentifier">>
      [] name = "socket" -> <<"af">>
      [] OTHER -> <<"Handle">>

\* MAX_MESSAGE_LENGTH = 20 * 1024 * 1024
MAX_MESSAGE_LENGTH == 20 * 1024 * 1024

\* The declared total lengths of the frames of a monitor that sends large
\* ones: the ceiling and the first length above it.
LargeFrames(mon) ==
    IF "large" \in mon.side
    THEN {MAX_MESSAGE_LENGTH, MAX_MESSAGE_LENGTH + 1} ELSE {}

\* dec.get("aux", {}) of the calls of a monitor.
AuxOf(mon) ==
    IF "aux" \in mon.side THEN { << >>, [k \in {"caller"} |-> 4096] }
    ELSE { << >> }

\* blen: the total length the frame declares in its first four bytes.  The
\* frames of the ordinary messages are short.
Messages(mon) ==
    { [type |-> "info", I |-> p[1], name |-> mon.table[p[2]],
       arginfo |-> ArgInfo(mon.table[p[2]]), args |-> << >>, aux |-> << >>,
       blen |-> 64]
      : p \in {q \in Indices(mon) \X Indices(mon) :
                  q[1] = q[2] \/ "rename" \in mon.side} }
    \cup { [type |-> t, I |-> 0, name |-> "NONAME", arginfo |-> << >>,
             args |-> << >>, aux |-> << >>, blen |-> 64]
           : t \in mon.side \ {"info", "large", "aux", "rename"} }
    \cup { [type |-> "debug", I |-> 0, name |-> "NONAME", arginfo |-> << >>,
             args |-> << >>, aux |-> << >>, blen |-> n]
           : n \in LargeFrames(mon) }
    \cup UNION { { [type |-> "call", I |-> i, name |-> "", arginfo |-> << >>,
                     args |-> a, aux |-> x, blen |-> 64]
                    : a \in mon.sends[i], x \in AuxOf(mon) }
                 : i \in Indices(mon) }

\* The message of a frame that was not decoded.
NoMessage ==
    [type |-> "none", I |-> 0, name |-> "", arginfo |-> << >>, args |-> << >>,
     aux |-> << >>, blen |-> 0]

\* FrameAccepted for a ceiling that is itself refused.
FrameAccepted_Strict(blen) == blen < MAX_MESSAGE_LENGTH

\* if blen > MAX_MESSAGE_LENGTH: return False
FrameAccepted(blen) == ~(blen > MAX_MESSAGE_LENGTH)

(***************************************************************************)
(* Argument Normalizer.                                                    *)
(***************************************************************************)
\* Arguments whose value is not an integer (strings, buffers).
NonIntArgs == {"Buffer", "FileName", "ModulePath"}

\* default_converter for a fix-up by 0xFFFF0000.
default_converter_Short(v) ==
    IF v < 0 THEN <<65535 + (v \div 65536), v % 65536>> ELSE v

\* v + 0x100000000 for a negative v.  The sum is 2^31 or more, beyond the
\* integers TLC handles: it is written as its two 16-bit halves
\* <<high, low>>, that is high * 65536 + low.
default_converter(v) ==
    IF v < 0 THEN <<65536 + (v \div 65536), v % 65536>> ELSE v

\* TYPECONVERTERS["p"]: "0x%08x" % default_converter(v), for v of 32 bits.
Hex ==
    <<"0", "1", "2", "3", "4", "5", "6", "7", "8", "9",
      "a", "b", "c", "d", "e", "f">>

Halves(v) ==
    IF v < 0 THEN default_converter(v)
    ELSE <<default_converter(v) \div 65536, default_converter(v) % 65536>>

pointer_converter(v) ==
    <<"0x">> \o [i \in 1..8 |->
                   Hex[((Halves(v)[IF i <= 4 THEN 1 ELSE 2]
                          \div (16 ^ ((8 - i) % 4))) % 16) + 1]]

\* The converter check_names_for_typeinfo takes for an argument of the type
\* typeinfo ("" for an argument sent by name only): that of TYPECONVERTERS,
\* default_converter if there is none.
converter(typeinfo, v) ==
    IF typeinfo = "p" THEN pointer_converter(v) ELSE default_converter(v)

Convert(argname, v) == IF argname \in NonIntArgs THEN v ELSE default_converter(v)

\* argdict = dict((argnames[i], converters[i](args[i])) for i in range(len(args)))
MakeArgdict(argnames, args) ==
    [k \in {argnames[i] : i \in 1..Len(args)} |->
        Convert(k, args[CHOOSE i \in 1..Len(args) :
                          /\ argnames[i] = k
                          /\ \A j \in 1..Len(args) : argnames[j] = k => j <= i])]

\* str.encode("hex"): two hex digits per byte, high nibble first.
HexEncode(buf) ==
    [i \in 1..(2 * Len(buf)) |->
        IF i % 2 = 1 THEN buf[(i + 1) \div 2] \div 16 ELSE buf[i \div 2] % 16]

\* The WriteProcessMemory branch rewrites argdict['Buffer'] in place.
Mutate(apiname, argdict) ==
    IF apiname = "WriteProcessMemory"
    THEN [argdict EXCEPT !["Buffer"] = HexEncode(@)]
    ELSE argdict

Entry(apiname, argdict) == [name |-> apiname, args |-> argdict]

(***************************************************************************)
(* Handler collaborator: Call History access (spec.md sections 3, 4.3, 6). *)
(* The history is kept in stream order; get_apis hands it out most recent  *)
(* first, which is the order the chain rules scan it in.                   *)
(***************************************************************************)
Reverse(s) == [i \in 1..Len(s) |-> s[Len(s) + 1 - i]]

set_apis(hist, new) == hist \o new

get_apis(hist) == Reverse(hist)

SameEntry(a, b) == a.name = b.name /\ a.args = b.args

\* Removes the first entry equal to e.
remove_from_apis(hist, e) ==
    IF \E i \in 1..Len(hist) : SameEntry(hist[i], e)
    THEN LET k == CHOOSE i \in 1..Len(hist) :
                    /\ SameEntry(hist[i], e)
                    /\ \A j \in 1..(i - 1) : ~SameEntry(hist[j], e)
         IN  [i \in 1..(Len(hist) - 1) |-> IF i < k THEN hist[i] ELSE hist[i + 1]]
    ELSE hist

reduce_times(t, trig) == [t EXCEPT ![trig] = @ - 1]

(***************************************************************************)
(* Chain correlation (read_next_message, the branches on apiname).         *)
(***************************************************************************)
\* LocateFirst with the break forgotten: the scan goes on to the last entry
\* of that name.
LocateFirst_NoBreak(scan, wanted) ==
    IF \E i \in 1..Len(scan) : scan[i].name = wanted
    THEN CHOOSE i \in 1..Len(scan) :
            /\ scan[i].name = wanted
            /\ \A j \in (i + 1)..Len(scan) : scan[j].name # wanted
    ELSE 0

\* for api in ...get_apis(): if name == wanted: found = args; break
\* The position of the first entry of scan with that name, 0 when none.
LocateFirst(scan, wanted) ==
    IF \E i \in 1..Len(scan) : scan[i].name = wanted
    THEN CHOOSE i \in 1..Len(scan) :
            /\ scan[i].name = wanted
            /\ \A j \in 1..(i - 1) : scan[j].name # wanted
    ELSE 0

\* set_thread_args['ThreadHandle'] == argdict['ThreadHandle']
ThreadHandleMatches(set_thread_args, argdict) ==
    set_thread_args["ThreadHandle"] = argdict["ThreadHandle"]

\* The NtResumeThread branch.
ResumeThreadQualifies(srv, hist, argdict) ==
    /\ srv
    /\ LET scan == get_apis(hist)
           i == LocateFirst(scan, "NtSetContextThread")
       IN  /\ i # 0
           /\ ThreadHandleMatches(scan[i].args, argdict)

\* The CreateRemoteThread branch: any recorded WriteProcessMemory qualifies.
RemoteThreadQualifies(srv, hist, argdict) ==
    /\ srv
    /\ LocateFirst(get_apis(hist), "WriteProcessMemory") # 0

\* LoadChainMatches with the comparison of the process handles forgotten.
LoadChainMatches_PidOnly(write_proc_args, args, argdict) ==
    argdict["ProcessId"] = args["ProcessId"]

\* The two comparisons of the LdrLoadDll branch.
LoadChainMatches(write_proc_args, args, argdict) ==
    /\ args["ProcessHandle"] = write_proc_args["ProcessHandle"]
    /\ argdict["ProcessId"] = args["ProcessId"]

\* The LdrLoadDll branch: the position in scan of the CreateRemoteThread entry
\* that completes the chain with the located WriteProcessMemory, 0 when none.
LocateRemoteThread(scan, write_proc_args, argdict) ==
    IF \E i \in 1..Len(scan) :
          /\ scan[i].name = "CreateRemoteThread"
          /\ LoadChainMatches(write_proc_args, scan[i].args, argdict)
    THEN CHOOSE i \in 1..Len(scan) :
            /\ scan[i].name = "CreateRemoteThread"
            /\ LoadChainMatches(write_proc_args, scan[i].args, argdict)
            /\ \A j \in 1..(i - 1) :
                  ~(/\ scan[j].name = "CreateRemoteThread"
                    /\ LoadChainMatches(write_proc_args, scan[j].args, argdict))
    ELSE 0

\* The entries <<WriteProcessMemory, CreateRemoteThread>> of a completed
\* three-step chain, << >> when the chain is not complete.
LoadChain(srv, hist, argdict) ==
    IF ~srv THEN << >>
    ELSE LET scan == get_apis(hist)
             w == LocateFirst(scan, "WriteProcessMemory")
         IN  IF w = 0 THEN << >>
             ELSE LET c == LocateRemoteThread(scan, scan[w].args, argdict)
                  IN  IF c = 0 THEN << >> ELSE <<scan[w], scan[c]>>

\* (".sys" in filename or not ":\\" in filename) and (not "system32" in filename)
FileQualifies(srv, filename) ==
    /\ srv
    /\ (HasSys(filename) \/ ~HasDrive(filename))
    /\ ~HasSystem32(filename)

\* The name execute_trigger_parameters is called with for this call, NoTrigger
\* when the branch taken does not call it.  hist is the history after set_apis.
Qualify(apiname, argdict, srv, hist) ==
    CASE apiname = "__process__" -> apiname
      [] apiname = "__thread__" -> NoTrigger
      [] apiname = "VirtualProtectEx" ->
           IF srv /\ argdict["CurrentProcessId"] # argdict["ProcessId"]
           THEN apiname ELSE NoTrigger
      [] apiname \in DirectMatch -> apiname
      [] apiname = "NtCreateFile" ->
           IF FileQualifies(srv, argdict["FileName"]) THEN apiname ELSE NoTrigger
      [] apiname = "WriteProcessMemory" ->
           IF argdict["ProcessId"] # argdict["CurrProcessId"]
           THEN apiname ELSE NoTrigger
      [] apiname = "NtResumeThread" ->
           IF ResumeThreadQualifies(srv, hist, argdict)
           THEN SetCtxResume ELSE NoTrigger
      [] apiname = "CreateRemoteThread" ->
           IF RemoteThreadQualifies(srv, hist, argdict)
           THEN WriteRemote ELSE NoTrigger
      [] apiname = "LdrLoadDll" ->
           IF LoadChain(srv, hist, argdict) # << >>
           THEN WriteRemoteLoad ELSE NoTrigger
      [] OTHER -> NoTrigger

\* RemoveChain with both remove_from_apis calls forgotten.
RemoveChain_Never(hist, chain) == hist

\* RemoveChain with the second remove_from_apis call forgotten.
RemoveChain_WriteOnly(hist, chain) ==
    IF chain = << >> THEN hist ELSE remove_from_apis(hist, chain[1])

\* The two remove_from_apis calls that follow a completed three-step chain.
RemoveChain(hist, chain) ==
    IF chain = << >> THEN hist
    ELSE remove_from_apis(remove_from_apis(hist, chain[1]), chain[2])

\* ChainOf with the removal of the three-step branch copied into the
\* CreateRemoteThread branch.
ChainOf_TwoStepRemoves(apiname, argdict, srv, hist) ==
    CASE apiname = "LdrLoadDll" -> LoadChain(srv, hist, argdict)
      [] apiname = "CreateRemoteThread"
         /\ RemoteThreadQualifies(srv, hist, argdict) ->
           LET scan == get_apis(hist)
           IN  <<scan[LocateFirst(scan, "WriteProcessMemory")],
                 Entry(apiname, argdict)>>
      [] OTHER -> << >>

\* The entries the call's branch removes from history once its trigger
\* evaluation has returned.
ChainOf(apiname, argdict, srv, hist) ==
    IF apiname = "LdrLoadDll" THEN LoadChain(srv, hist, argdict) ELSE << >>

(***************************************************************************)
(* execute_trigger_parameters.                                             *)
(***************************************************************************)
\* What cuckoo.conf (triggered_dumps) and the trigger's section of
\* triggers.conf say when they are read; the files are read again at every
\* evaluation.  present: the section exists.
Conf(td, pr, en, dm, vs, bk) ==
    [triggered_dumps |-> td, present |-> pr, enabled |-> en, dump_memory |-> dm,
     break_on_volshell |-> vs, breakpoint |-> bk]

Confs ==
    { Conf(TRUE, TRUE, TRUE, FALSE, FALSE, FALSE),
      Conf(TRUE, TRUE, TRUE, TRUE, FALSE, FALSE),
      Conf(TRUE, TRUE, TRUE, FALSE, TRUE, FALSE),
      Conf(TRUE, TRUE, TRUE, TRUE, TRUE, TRUE) }
    \cup { Conf(FALSE, TRUE, TRUE, TRUE, TRUE, TRUE),
           Conf(TRUE, FALSE, FALSE, FALSE, FALSE, FALSE),
           Conf(TRUE, TRUE, FALSE, TRUE, TRUE, TRUE) }

\* The configuration as far as a call reads it that evaluates no trigger.
NoConf == Conf(TRUE, FALSE, FALSE, FALSE, FALSE, FALSE)

\* ExecGuard with the test of the fire count off by one.
ExecGuard_OffByOne(conf, trig, srv, t) ==
    /\ conf.triggered_dumps
    /\ conf.present
    /\ conf.enabled
    /\ srv
    /\ t[trig] >= 0

\* ExecGuard with the test of the rule's enabled flag forgotten.
ExecGuard_IgnoresEnabled(conf, trig, srv, t) ==
    /\ conf.triggered_dumps
    /\ conf.present
    /\ srv
    /\ t[trig] > 0

\* The condition guarding every action of a trigger.
ExecGuard(conf, trig, srv, t) ==
    /\ conf.triggered_dumps
    /\ conf.present
    /\ conf.enabled
    /\ srv
    /\ t[trig] > 0

\* if trig_options.dump_memory: / break_on_volshell or ...: / breakpoint or ...:
WantsDump(conf) == conf.dump_memory
WantsVolshell(conf, trig, vbps) == conf.break_on_volshell \/ trig \in vbps
WantsBreakpoint(conf, trig, b) == conf.breakpoint \/ trig \in b

\* A call made while a message is decoded: the function, the API or trigger
\* name it is made for, the arguments passed.
Ev(fn, name, args) == [fn |-> fn, name |-> name, args |-> args]

\* TriggerHead for an evaluation that asks for the dump once more after the
\* dump.
TriggerHead_DumpsAgain(conf, trig, argdict, srv, t) ==
    IF ExecGuard(conf, trig, srv, t)
    THEN <<Ev("reduce_times", trig, << >>)>>
         \o (IF WantsDump(conf)
             THEN <<Ev("dump_memory", trig, argdict),
                    Ev("dump_memory", trig, argdict)>>
             ELSE << >>)
    ELSE << >>

\* execute_trigger_parameters up to its first blocking call: the fire count
\* is reduced, then the dump requested.
TriggerHead(conf, trig, argdict, srv, t) ==
    IF ExecGuard(conf, trig, srv, t)
    THEN <<Ev("reduce_times", trig, << >>)>>
         \o (IF WantsDump(conf) THEN <<Ev("dump_memory", trig, argdict)>>
             ELSE << >>)
    ELSE << >>

\* call_volshell before its wait.
VolshellEnter(trig) == <<Ev("suspend_machine", trig, << >>)>>

\* VolshellLeave with the resume_machine call forgotten.
VolshellLeave_NoResume(trig) == <<Ev("os.remove", trig, << >>)>>

\* call_volshell after its wait.
VolshellLeave(trig) ==
    <<Ev("os.remove", trig, << >>), Ev("resume_machine", trig, << >>)>>

\* MarkerSeen with the wait for /tmp/marker skipped.
MarkerSeen_NoWait(mk) == TRUE

\* while not os.path.exists("/tmp/marker"): time.sleep(1)
MarkerSeen(mk) == mk

\* breakpoint before the debugger, and after it.
BreakpointEnter(trig) == <<Ev("suspend_machine", trig, << >>)>>
BreakpointLeave(trig) == <<Ev("resume_machine", trig, << >>)>>

\* Blocked for a reader that goes on while a trigger action waits.
Blocked_Never(p) == FALSE

\* call_volshell and breakpoint run inside read_next_message: while one of
\* them waits, the read loop does not go on.
Blocked(p) == p # "read"

(***************************************************************************)
(* Handler collaborator: the suspend/resume control (spec.md section 5).   *)
(***************************************************************************)
suspend_machine(n) == n + 1
resume_machine(n) == n - 1

\* The outstanding suspensions after the calls evs.
RECURSIVE Machine(_, _)
Machine(n, evs) ==
    IF evs = << >> THEN n
    ELSE Machine(CASE Head(evs).fn = "suspend_machine" -> suspend_machine(n)
                   [] Head(evs).fn = "resume_machine" -> resume_machine(n)
                   [] OTHER -> n,
                 Tail(evs))

\* Whether /tmp/marker exists after the calls evs.
MarkerAfter(mk, evs) ==
    IF \E i \in 1..Len(evs) : evs[i].fn = "os.remove" THEN FALSE ELSE mk

(***************************************************************************)
(* State of one session.                                                   *)
(***************************************************************************)
VARIABLES
    monitor,        \* the monitor that writes the stream
    server,         \* whether the handler has the "server" capability
    infomap,        \* self.infomap: index -> [name, argnames]
    apis,           \* the handler's Call History, in stream order
    times,          \* the handler's remaining fire count of each rule
    bps,            \* the handler's breakpoint names (get_bps)
    volshell_bps,   \* the handler's volshell breakpoint names
    marker,         \* whether /tmp/marker exists
    suspended,      \* outstanding suspensions of the monitored machine
    pc,             \* where the session is: "read", "volshell", "breakpoint",
                    \* "done" once read_next_message has returned False
    cur,            \* the call whose trigger actions are in progress
    out,            \* the message being decoded and the calls made for it
    times0,         \* the fire counts the session started with
    fires,          \* how often each rule has fired
    legacy,         \* a session of the legacy decoder (NetlogParser)
    analysis,       \* a pass of the memory analysis (MemoryAnalysis)
    applied         \* a function of the decoders applied to one input

\* The variables of a BsonParser session.
bsonvars == <<monitor, server, infomap, apis, times, bps, volshell_bps, marker,
              suspended, pc, cur, out, times0, fires>>

vars == <<monitor, server, infomap, apis, times, bps, volshell_bps, marker,
          suspended, pc, cur, out, times0, fires, legacy, analysis,
          applied>>

NoCur == [active |-> FALSE, apiname |-> "", argdict |-> << >>,
          aux |-> << >>, trig |-> "",
          wantBp |-> FALSE, chain |-> << >>]

\* out: of the message m last read its type, index, number of arguments,
\* auxiliary fields, for an info message the name and argument names it
\* announces, the length its frame declared and the bytes read of it; for a
\* decoded
\* call its API name and argdict; the Call History and the schema table
\* when it was read; what the configuration said of its trigger ("unread"
\* when none was evaluated); the calls made while decoding it, in order;
\* and what read_next_message returned ("pending" while it has not).
Out(m, api, argdict, before, rule, tr, ret) ==
    [type |-> m.type, I |-> m.I, nargs |-> Len(m.args), aux |-> m.aux,
     name |-> m.name, arginfo |-> m.arginfo, blen |-> m.blen,
     read |-> m.blen, api |-> api, argdict |-> argdict, before |-> before,
     rule |-> rule, trace |-> tr, ret |-> ret]

RuleState(conf) ==
    CASE ~conf.triggered_dumps -> "off"
      [] ~conf.present -> "absent"
      [] ~conf.enabled -> "disabled"
      [] OTHER -> "enabled"

\* The names a debugger user arms with set_bp / set_volshell_bp: the
\* monitored APIs it has an eye on.
BpNames(mon) == {"socket"} \cap {mon.table[i] : i \in Indices(mon)}

\* The trigger names a session with the monitor can evaluate.
TriggersOf(mon) ==
    {mon.table[i] : i \in Indices(mon)}
    \cup {SetCtxResume, WriteRemote, WriteRemoteLoad}

Init ==
    /\ monitor \in Monitors
    /\ server \in BOOLEAN
    /\ infomap = << >>
    /\ apis = << >>
    /\ \E n \in {0, MaxTimes} : /\ times = [t \in TriggersOf(monitor) |-> n]
                                 /\ times0 = [t \in TriggersOf(monitor) |-> n]
    /\ fires = [t \in TriggersOf(monitor) |-> 0]
    /\ bps = {}
    /\ volshell_bps = {}
    /\ marker = FALSE
    /\ suspended = 0
    /\ pc = "read"
    /\ cur = NoCur
    /\ out = Out(NoMessage, "", << >>, << >>, "unread", << >>, "True")
    /\ legacy = << >>
    /\ analysis = << >>
    /\ applied = << >>

\* No BsonParser session: the state of its variables in the behaviours of
\* the legacy decoder and of the memory analysis.
BsonIdle ==
    /\ monitor = Monitor(<< >>, << >>, {})
    /\ server = FALSE
    /\ infomap = << >>
    /\ apis = << >>
    /\ times = << >>
    /\ times0 = << >>
    /\ fires = << >>
    /\ bps = {}
    /\ volshell_bps = {}
    /\ marker = FALSE
    /\ suspended = 0
    /\ pc = "idle"
    /\ cur = NoCur
    /\ out = Out(NoMessage, "", << >>, << >>, "unread", << >>, "True")

\* argdict.pop(key, default)
Pop(argdict, key, default) ==
    IF key \in DOMAIN argdict THEN argdict[key] ELSE default

\* The items of a mapping, as (key, value) pairs.
Items(f) == { <<k, f[k]>> : k \in DOMAIN f }

\* Arguments for a decoder that forwards the status entries as arguments.
Arguments_KeepsStatus(argdict, aux) ==
    [status |-> Pop(argdict, "is_success", 1),
     retval |-> Pop(argdict, "retval", 0),
     arguments |-> Items(argdict) \cup Items(aux)]

\* context[1] = argdict.pop("is_success", 1)
\* context[2] = argdict.pop("retval", 0)
\* arguments = argdict.items(); arguments += dec.get("aux", {}).items()
Arguments(argdict, aux) ==
    [status |-> Pop(argdict, "is_success", 1),
     retval |-> Pop(argdict, "retval", 0),
     arguments |->
        Items([k \in (DOMAIN argdict) \ {"is_success", "retval"} |-> argdict[k]])
        \cup Items(aux)]

\* The bookkeeping event a call is translated into before its branch runs.
Bookkeeping(apiname, argdict) ==
    CASE apiname = "__process__" -> <<Ev("log_process", apiname, argdict)>>
      [] apiname = "__thread__" -> <<Ev("log_thread", apiname, argdict)>>
      [] OTHER -> << >>

\* FinishTrace with the early returns of the bookkeeping branches forgotten.
FinishTrace_NoReturn(apiname, argdict, aux) ==
    <<Ev("log_call", apiname, Arguments(argdict, aux))>>

\* What follows the branches on apiname: the bookkeeping calls have
\* returned, every other call is forwarded.
FinishTrace(apiname, argdict, aux) ==
    IF apiname \in {"__process__", "__thread__"} THEN << >>
    ELSE <<Ev("log_call", apiname, Arguments(argdict, aux))>>

\* The end of a message whose trigger actions blocked: the chain's entries
\* are removed, the call is forwarded, read_next_message returns True.
Finish(evs) ==
    /\ apis' = RemoveChain(apis, cur.chain)
    /\ out' = [out EXCEPT !.trace = @ \o evs
                                      \o FinishTrace(cur.apiname, cur.argdict,
                                                     cur.aux),
                          !.ret = "True"]
    /\ suspended' = Machine(suspended, evs)
    /\ pc' = "read"
    /\ cur' = NoCur

\* A frame that declares more than MAX_MESSAGE_LENGTH bytes: its four
\* length bytes have been read, read_next_message returns False and the
\* session ends.
ReadOversized ==
    /\ ~Blocked(pc)
    /\ \E m \in Messages(monitor) :
          /\ ~FrameAccepted(m.blen)
          /\ out' = [Out(NoMessage, "", << >>, apis, "unread", << >>, "False")
                       EXCEPT !.blen = m.blen, !.read = 4]
    /\ pc' = "done"
    /\ UNCHANGED <<legacy, analysis, applied>>
    /\ UNCHANGED <<monitor, server, infomap, apis, times, bps, volshell_bps,
                   marker, suspended, cur, times0, fires>>

\* ReadInfo for a table that keeps the first schema of an index.
ReadInfo_KeepsFirst ==
    /\ ~Blocked(pc)
    /\ \E m \in Messages(monitor) :
          /\ FrameAccepted(m.blen)
          /\ m.type = "info"
          /\ IF m.I \in DOMAIN infomap
             THEN monitor.side \cap {"info", "rename"} # {}
             ELSE m.name = monitor.table[m.I]
          /\ infomap' = [i \in (DOMAIN infomap) \cup {m.I} |->
                           IF i \in DOMAIN infomap THEN infomap[i]
                           ELSE [name |-> m.name, argnames |-> m.arginfo]]
          /\ out' = Out(m, "", << >>, apis, "unread", << >>, "True")
    /\ UNCHANGED <<legacy, analysis, applied>>
    /\ UNCHANGED <<monitor, server, apis, times, bps, volshell_bps, marker,
                   suspended, pc, cur, times0, fires>>

\* mtype == "info": the schema is registered under the index.  A monitor
\* announces an index with its own API first; only some announce it again.
ReadInfo ==
    /\ ~Blocked(pc)
    /\ \E m \in Messages(monitor) :
          /\ FrameAccepted(m.blen)
          /\ m.type = "info"
          /\ IF m.I \in DOMAIN infomap
             THEN monitor.side \cap {"info", "rename"} # {}
             ELSE m.name = monitor.table[m.I]
          /\ infomap' = [i \in (DOMAIN infomap) \cup {m.I} |->
                           IF i = m.I
                           THEN [name |-> m.name, argnames |-> m.arginfo]
                           ELSE infomap[i]]
          /\ out' = Out(m, "", << >>, apis, "unread", << >>, "True")
    /\ UNCHANGED <<legacy, analysis, applied>>
    /\ UNCHANGED <<monitor, server, apis, times, bps, volshell_bps, marker,
                   suspended, pc, cur, times0, fires>>

\* mtype == "debug": a log line.
ReadDebug ==
    /\ ~Blocked(pc)
    /\ \E m \in Messages(monitor) :
          /\ FrameAccepted(m.blen)
          /\ m.type = "debug"
          /\ out' = Out(m, "", << >>, apis, "unread", << >>, "True")
    /\ UNCHANGED <<legacy, analysis, applied>>
    /\ UNCHANGED <<monitor, server, infomap, apis, times, bps, volshell_bps,
                   marker, suspended, pc, cur, times0, fires>>

\* mtype == "new_process": log_process, nothing else.
ReadNewProcess ==
    /\ ~Blocked(pc)
    /\ \E m \in Messages(monitor) :
          /\ FrameAccepted(m.blen)
          /\ m.type = "new_process"
          /\ out' = Out(m, "", << >>, apis, "unread",
                        <<Ev("log_process", m.name, << >>)>>, "True")
    /\ UNCHANGED <<legacy, analysis, applied>>
    /\ UNCHANGED <<monitor, server, infomap, apis, times, bps, volshell_bps,
                   marker, suspended, pc, cur, times0, fires>>

\* ReadUnknownIndex for a decoder that gives up on a call without schema.
ReadUnknownIndex_Fatal ==
    /\ ~Blocked(pc)
    /\ \E m \in Messages(monitor) :
          /\ FrameAccepted(m.blen)
          /\ m.type = "call"
          /\ m.I \notin DOMAIN infomap
          /\ out' = Out(m, "", << >>, apis, "unread", << >>, "False")
    /\ pc' = "done"
    /\ UNCHANGED <<legacy, analysis, applied>>
    /\ UNCHANGED <<monitor, server, infomap, apis, times, bps, volshell_bps,
                   marker, suspended, cur, times0, fires>>

\* A call whose index has no schema: a warning, return True.
ReadUnknownIndex ==
    /\ ~Blocked(pc)
    /\ \E m \in Messages(monitor) :
          /\ FrameAccepted(m.blen)
          /\ m.type = "call"
          /\ m.I \notin DOMAIN infomap
          /\ out' = Out(m, "", << >>, apis, "unread", << >>, "True")
    /\ UNCHANGED <<legacy, analysis, applied>>
    /\ UNCHANGED <<monitor, server, infomap, apis, times, bps, volshell_bps,
                   marker, suspended, pc, cur, times0, fires>>

\* ReadArgCountMismatch for a decoder that forwards the call all the same.
ReadArgCountMismatch_Forwards ==
    /\ ~Blocked(pc)
    /\ \E m \in Messages(monitor) :
          /\ FrameAccepted(m.blen)
          /\ m.type = "call"
          /\ m.I \in DOMAIN infomap
          /\ Len(m.args) # Len(infomap[m.I].argnames)
          /\ out' = Out(m, "", << >>, apis, "unread",
                        <<Ev("log_call", infomap[m.I].name, << >>)>>, "True")
    /\ UNCHANGED <<legacy, analysis, applied>>
    /\ UNCHANGED <<monitor, server, infomap, apis, times, bps, volshell_bps,
                   marker, suspended, pc, cur, times0, fires>>

\* ReadArgCountMismatch for a decoder that records the call in Call History
\* before it counts the arguments.
ReadArgCountMismatch_Records ==
    /\ ~Blocked(pc)
    /\ \E m \in Messages(monitor) :
          /\ FrameAccepted(m.blen)
          /\ m.type = "call"
          /\ m.I \in DOMAIN infomap
          /\ Len(m.args) # Len(infomap[m.I].argnames)
          /\ apis' = IF server
                     THEN set_apis(apis, <<Entry(infomap[m.I].name, << >>)>>)
                     ELSE apis
          /\ out' = Out(m, "", << >>, apis, "unread", << >>, "True")
    /\ UNCHANGED <<legacy, analysis, applied>>
    /\ UNCHANGED <<monitor, server, infomap, times, bps, volshell_bps, marker,
                   suspended, pc, cur, times0, fires>>

\* A call whose argument list is not as long as its schema's: a warning,
\* return True, before the call is recorded or looked at.
ReadArgCountMismatch ==
    /\ ~Blocked(pc)
    /\ \E m \in Messages(monitor) :
          /\ FrameAccepted(m.blen)
          /\ m.type = "call"
          /\ m.I \in DOMAIN infomap
          /\ Len(m.args) # Len(infomap[m.I].argnames)
          /\ out' = Out(m, "", << >>, apis, "unread", << >>, "True")
    /\ UNCHANGED <<legacy, analysis, applied>>
    /\ UNCHANGED <<monitor, server, infomap, apis, times, bps, volshell_bps,
                   marker, suspended, pc, cur, times0, fires>>

\* Whether decoding the call reaches execute_trigger_parameters, where the
\* configuration is read.  The handler with the "server" attribute is the
\* one with set_apis: one capability stands for both hasattr tests.
Evaluated(schema, args, srv, hist0) ==
    LET argdict == Mutate(schema.name, MakeArgdict(schema.argnames, args))
        hist == IF srv THEN set_apis(hist0, <<Entry(schema.name, argdict)>>)
                ELSE hist0
    IN  Qualify(schema.name, argdict, srv, hist) # NoTrigger

\* A regular call with a registered schema, up to the first point where the
\* session blocks (call_volshell, breakpoint) or to the end of the message.
ReadCall ==
    /\ ~Blocked(pc)
    /\ Len(apis) < MaxHist
    /\ \E m \in Messages(monitor) : \E conf \in Confs :
          /\ FrameAccepted(m.blen)
          /\ m.type = "call"
          /\ m.I \in DOMAIN infomap
          /\ Len(m.args) = Len(infomap[m.I].argnames)
          /\ Evaluated(infomap[m.I], m.args, server, apis) \/ conf = NoConf
          /\ LET apiname == infomap[m.I].name
                 argdict == Mutate(apiname,
                                   MakeArgdict(infomap[m.I].argnames, m.args))
                 hist == IF server
                         THEN set_apis(apis, <<Entry(apiname, argdict)>>)
                         ELSE apis
                 trig == Qualify(apiname, argdict, server, hist)
                 chain == ChainOf(apiname, argdict, server, hist)
                 armed == trig # NoTrigger /\ ExecGuard(conf, trig, server, times)
                 vol == armed /\ WantsVolshell(conf, trig, volshell_bps)
                 bp == armed /\ WantsBreakpoint(conf, trig, bps)
                 tr == Bookkeeping(apiname, argdict)
                       \o (IF trig # NoTrigger
                           THEN <<Ev("execute_trigger_parameters", trig, argdict)>>
                                \o TriggerHead(conf, trig, argdict, server, times)
                           ELSE << >>)
                       \o (IF vol THEN VolshellEnter(trig)
                           ELSE IF bp THEN BreakpointEnter(trig)
                           ELSE FinishTrace(apiname, argdict, m.aux))
                 rule == IF trig # NoTrigger THEN RuleState(conf) ELSE "unread"
             IN  /\ times' = IF armed THEN reduce_times(times, trig) ELSE times
                 /\ fires' = IF armed THEN [fires EXCEPT ![trig] = @ + 1] ELSE fires
                 /\ suspended' = Machine(suspended, tr)
                 /\ IF vol \/ bp
                    THEN /\ apis' = hist
                         /\ pc' = IF vol THEN "volshell" ELSE "breakpoint"
                         /\ cur' = [active |-> TRUE, apiname |-> apiname,
                                    argdict |-> argdict, aux |-> m.aux,
                                    trig |-> trig,
                                    wantBp |-> vol /\ bp, chain |-> chain]
                         /\ out' = Out(m, apiname, argdict, apis, rule, tr,
                                       "pending")
                    ELSE /\ apis' = RemoveChain(hist, chain)
                         /\ pc' = "read"
                         /\ cur' = NoCur
                         /\ out' = Out(m, apiname, argdict, apis, rule, tr,
                                       "True")
    /\ UNCHANGED <<legacy, analysis, applied>>
    /\ UNCHANGED <<monitor, server, infomap, bps, volshell_bps, marker, times0>>

\* call_volshell once /tmp/marker exists: the marker is removed, the machine
\* resumed; then the breakpoint, if the trigger asks for one, else the rest
\* of the message.
VolshellDone ==
    /\ pc = "volshell"
    /\ MarkerSeen(marker)
    /\ marker' = MarkerAfter(marker, VolshellLeave(cur.trig))
    /\ IF cur.wantBp
       THEN LET evs == VolshellLeave(cur.trig) \o BreakpointEnter(cur.trig)
            IN  /\ suspended' = Machine(suspended, evs)
                /\ pc' = "breakpoint"
                /\ out' = [out EXCEPT !.trace = @ \o evs]
                /\ UNCHANGED <<apis, cur>>
       ELSE Finish(VolshellLeave(cur.trig))
    /\ UNCHANGED <<legacy, analysis, applied>>
    /\ UNCHANGED <<monitor, server, infomap, times, bps, volshell_bps, times0,
                   fires>>

\* The external tool signals the end of the interactive session.
TouchMarker ==
    /\ pc = "volshell"
    /\ ~marker
    /\ marker' = TRUE
    /\ UNCHANGED <<legacy, analysis, applied>>
    /\ UNCHANGED <<monitor, server, infomap, apis, times, bps, volshell_bps,
                   suspended, pc, cur, out, times0, fires>>

\* In the debugger: set_bp(api).
SetBp ==
    /\ pc = "breakpoint"
    /\ \E api \in BpNames(monitor) : bps' = bps \cup {api}
    /\ bps' # bps
    /\ UNCHANGED <<legacy, analysis, applied>>
    /\ UNCHANGED <<monitor, server, infomap, apis, times, volshell_bps, marker,
                   suspended, pc, cur, out, times0, fires>>

\* In the debugger: set_volshell_bp(api).
SetVolshellBp ==
    /\ pc = "breakpoint"
    /\ \E api \in BpNames(monitor) : volshell_bps' = volshell_bps \cup {api}
    /\ volshell_bps' # volshell_bps
    /\ UNCHANGED <<legacy, analysis, applied>>
    /\ UNCHANGED <<monitor, server, infomap, apis, times, bps, marker,
                   suspended, pc, cur, out, times0, fires>>

\* The debugger continues: resume_machine, then the rest of the message.
BreakpointDone ==
    /\ pc = "breakpoint"
    /\ Finish(BreakpointLeave(cur.trig))
    /\ UNCHANGED <<legacy, analysis, applied>>
    /\ UNCHANGED <<monitor, server, infomap, times, bps, volshell_bps, marker,
                   times0, fires>>

Next ==
    \/ ReadOversized
    \/ ReadInfo
    \/ ReadDebug
    \/ ReadNewProcess
    \/ ReadUnknownIndex
    \/ ReadArgCountMismatch
    \/ ReadCall
    \/ VolshellDone
    \/ TouchMarker
    \/ SetBp
    \/ SetVolshellBp
    \/ BreakpointDone

Spec == Init /\ [][Next]_vars

\* The wait of call_volshell polls once a second: once the marker is there,
\* it is seen.
LiveSpec == Spec /\ WF_vars(VolshellDone)

(***************************************************************************)
(* Properties.  They are stated on out, the record of the message last     *)
(* decoded, and on the handler state, without the operators that model     *)
(* the code.                                                               *)
(***************************************************************************)
\* The positions in the calls tr that call fn for name.
CallsFor(tr, fn, name) ==
    {i \in 1..Len(tr) : tr[i].fn = fn /\ tr[i].name = name}

\* The positions in the calls tr that call fn.
CallsOf(tr, fn) == {i \in 1..Len(tr) : tr[i].fn = fn}

Occurrences(s, e) == Cardinality({i \in 1..Len(s) : s[i] = e})

Elements(s) == {s[i] : i \in 1..Len(s)}

\* The last call decoded: a call to api, read by a handler with the "server"
\* capability.
Decoded(api) == out.type = "call" /\ out.api = api /\ server

\* The Call History entry of the call last decoded.
ThisEntry == [name |-> out.api, args |-> out.argdict]

\* The position in the stream-ordered history h of its most recent entry
\* named name, 0 when there is none.
MostRecent(h, name) ==
    IF \E i \in 1..Len(h) : h[i].name = name
    THEN CHOOSE i \in 1..Len(h) :
            /\ h[i].name = name
            /\ \A j \in (i + 1)..Len(h) : h[j].name # name
    ELSE 0

\* The positions in h of the CreateRemoteThread entries on process handle
\* hd and process id pid.
RemoteThreads(h, hd, pid) ==
    {c \in 1..Len(h) : /\ h[c].name = "CreateRemoteThread"
                       /\ h[c].args["ProcessHandle"] = hd
                       /\ h[c].args["ProcessId"] = pid}

\* The positions in h of the WriteProcessMemory entries on process handle hd.
Writes(h, hd) ==
    {w \in 1..Len(h) : /\ h[w].name = "WriteProcessMemory"
                       /\ h[w].args["ProcessHandle"] = hd}

\* The history is h with the current call appended and one occurrence of
\* each of the entries a and b taken out.
TwoRemoved(h, a, b) ==
    /\ Len(apis) = Len(h) - 1
    /\ \A e \in Elements(h) \cup {ThisEntry} :
          Occurrences(apis, e) =
              Occurrences(h \o <<ThisEntry>>, e)
              - (IF e = a THEN 1 ELSE 0) - (IF e = b THEN 1 ELSE 0)

ChainEvaluations ==
    CallsFor(out.trace, "execute_trigger_parameters", WriteRemoteLoad)

\* C1, as amended: when LdrLoadDll(ProcessId=p) is decoded and the most
\* recent WriteProcessMemory entry of Call History is on a handle h on which
\* the history also holds CreateRemoteThread(ProcessHandle=h, ProcessId=p),
\* the trigger 'WriteProcessMemory -> CreateRemoteThread -> LoadLibrary' is
\* evaluated exactly once (its fire count reduced at most once) and, when the
\* message is done, that WriteProcessMemory entry and one such
\* CreateRemoteThread entry are gone from Call History; in every other case
\* (so also for a later LdrLoadDll(p) with no new pair) the chain is not
\* evaluated and nothing is removed.
C1_ChainFiresOnceAndRemoves ==
    Decoded("LdrLoadDll") =>
        LET h == out.before
            w == MostRecent(h, "WriteProcessMemory")
            cs == IF w = 0 THEN {}
                  ELSE RemoteThreads(h, h[w].args["ProcessHandle"],
                                     out.argdict["ProcessId"])
        IN  IF cs # {}
            THEN /\ Cardinality(ChainEvaluations) = 1
                 /\ Cardinality(CallsFor(out.trace, "reduce_times",
                                         WriteRemoteLoad)) <= 1
                 /\ out.ret = "pending" => apis = h \o <<ThisEntry>>
                 /\ out.ret = "True" =>
                       TwoRemoved(h, h[w], h[CHOOSE c \in cs : TRUE])
            ELSE /\ ChainEvaluations = {}
                 /\ apis = h \o <<ThisEntry>>

\* C1, reached: the chain was evaluated for an LdrLoadDll call, fired, and
\* the message is done with the pair removed.
C1_Witness ==
    /\ Decoded("LdrLoadDll")
    /\ out.ret = "True"
    /\ Cardinality(ChainEvaluations) = 1
    /\ fires[WriteRemoteLoad] >= 1
    /\ Len(apis) = Len(out.before) - 1

\* C1, as stated: whenever Call History holds WriteProcessMemory(h) and
\* CreateRemoteThread(h, p), decoding LdrLoadDll(p) evaluates the chain
\* exactly once and removes those two entries.
C1_AnyPairFires ==
    Decoded("LdrLoadDll") =>
        LET h == out.before
        IN  \A c \in {i \in 1..Len(h) : h[i].name = "CreateRemoteThread"} :
               \A w \in Writes(h, h[c].args["ProcessHandle"]) :
                  h[c].args["ProcessId"] = out.argdict["ProcessId"]
                  => /\ Cardinality(ChainEvaluations) = 1
                     /\ out.ret = "True" => TwoRemoved(h, h[w], h[c])


\* The call last decoded is a call to api.
IsCall(api) == out.type = "call" /\ out.api = api

\* C2, as amended: the three-step chain trigger is evaluated for an
\* LdrLoadDll call only when Call History holds a WriteProcessMemory entry
\* and a CreateRemoteThread entry on the same process handle, and that
\* CreateRemoteThread entry has the process id of the LdrLoadDll call; the
\* WriteProcessMemory entry's own ProcessId is not compared.
C2_ChainNeedsHandleThenPid ==
    (IsCall("LdrLoadDll") /\ ChainEvaluations # {}) =>
        LET h == out.before
        IN  \E c \in 1..Len(h) :
               /\ h[c].name = "CreateRemoteThread"
               /\ h[c].args["ProcessId"] = out.argdict["ProcessId"]
               /\ Writes(h, h[c].args["ProcessHandle"]) # {}

\* C2, reached: the chain is evaluated for an LdrLoadDll call although no
\* WriteProcessMemory entry of the history has the call's process id.
C2_Witness ==
    /\ IsCall("LdrLoadDll")
    /\ ChainEvaluations # {}
    /\ \A w \in 1..Len(out.before) :
          out.before[w].name = "WriteProcessMemory"
          => out.before[w].args["ProcessId"] # out.argdict["ProcessId"]

\* C2, as stated: the chain is evaluated only when the three calls agree on
\* the process handle and on the process id, the WriteProcessMemory entry's
\* ProcessId included.
C2_SamePidAcrossAllThree ==
    (IsCall("LdrLoadDll") /\ ChainEvaluations # {}) =>
        LET h == out.before
        IN  \E c \in 1..Len(h) :
               /\ h[c].name = "CreateRemoteThread"
               /\ h[c].args["ProcessId"] = out.argdict["ProcessId"]
               /\ \E w \in Writes(h, h[c].args["ProcessHandle"]) :
                     h[w].args["ProcessId"] = out.argdict["ProcessId"]

\* C3: 'WriteProcessMemory -> CreateRemoteThread' is evaluated for a
\* CreateRemoteThread call only if Call History holds a prior
\* WriteProcessMemory entry on the call's ProcessHandle.
C3_WriteOnSameHandle ==
    (/\ IsCall("CreateRemoteThread")
     /\ CallsFor(out.trace, "execute_trigger_parameters", WriteRemote) # {})
    => Writes(out.before, out.argdict["ProcessHandle"]) # {}

\* C4: for an NtResumeThread call, 'NtSetContextThread -> NtResumeThread' is
\* evaluated exactly when the most recent prior NtSetContextThread entry of
\* Call History has the call's ThreadHandle.
C4_MostRecentSetContext ==
    IsCall("NtResumeThread") =>
        LET h == out.before
            k == MostRecent(h, "NtSetContextThread")
        IN  (CallsFor(out.trace, "execute_trigger_parameters", SetCtxResume) # {})
            <=> (/\ server
                 /\ k # 0
                 /\ h[k].args["ThreadHandle"] = out.argdict["ThreadHandle"])

\* C4, reached: with history [NtSetContextThread(1), NtSetContextThread(2)],
\* NtResumeThread(2) completes the chain.
C4_Witness ==
    /\ IsCall("NtResumeThread")
    /\ Len(out.before) = 2
    /\ \A i \in 1..2 : /\ out.before[i].name = "NtSetContextThread"
                       /\ out.before[i].args["ThreadHandle"] = i
    /\ out.argdict["ThreadHandle"] = 2
    /\ CallsFor(out.trace, "execute_trigger_parameters", SetCtxResume) # {}


\* The calls that act on a fire of a rule.
ActionCalls ==
    {"reduce_times", "dump_memory", "suspend_machine", "os.remove",
     "resume_machine"}

\* C5: for every rule the remaining fire count stays between zero and the
\* initial count, it is the initial count less the number of fires, and
\* within one message every dump, interactive session and breakpoint of a
\* rule comes after the one decrement of that rule's count: the fires of a
\* rule never exceed its initial fire count.
C5_FireCountNeverExceeded ==
    /\ \A t \in DOMAIN times :
          /\ times[t] \in 0..times0[t]
          /\ fires[t] = times0[t] - times[t]
    /\ Cardinality(CallsOf(out.trace, "reduce_times")) <= 1
    /\ Cardinality(CallsOf(out.trace, "dump_memory")) <= 1
    /\ Cardinality(CallsOf(out.trace, "suspend_machine")) <= 2
    /\ \A i \in 1..Len(out.trace) :
          out.trace[i].fn \in ActionCalls \ {"reduce_times"}
          => \E j \in 1..(i - 1) :
                /\ out.trace[j].fn = "reduce_times"
                /\ out.trace[j].name = out.trace[i].name

\* C5, reached: a rule that has used up its fire count is evaluated again,
\* enabled in the configuration, and does nothing.
C5_Witness ==
    \E t \in DOMAIN times :
       /\ times0[t] = MaxTimes
       /\ times[t] = 0
       /\ fires[t] = MaxTimes
       /\ out.rule = "enabled"
       /\ CallsFor(out.trace, "execute_trigger_parameters", t) # {}
       /\ \A i \in 1..Len(out.trace) : out.trace[i].fn \notin ActionCalls

\* C6: when a trigger is evaluated whose rule is absent, disabled or has no
\* fire count left, nothing is done for it: no fire count changes, no
\* dump_memory, suspend_machine or resume_machine call is made, the session
\* does not block, and a call that is not a bookkeeping call is forwarded to
\* log_call as the last thing done for the message.
C6_NoActionUnlessArmed ==
    [][(/\ pc = "read"
        /\ out'.type = "call"
        /\ \E i \in 1..Len(out'.trace) :
              /\ out'.trace[i].fn = "execute_trigger_parameters"
              /\ \/ out'.rule \in {"absent", "disabled"}
                 \/ times[out'.trace[i].name] = 0)
       => /\ times' = times
          /\ suspended' = suspended
          /\ pc' = "read"
          /\ out'.ret = "True"
          /\ \A i \in 1..Len(out'.trace) : out'.trace[i].fn \notin ActionCalls
          /\ out'.api \notin {"__process__", "__thread__"}
             => /\ out'.trace[Len(out'.trace)].fn = "log_call"
                /\ out'.trace[Len(out'.trace)].name = out'.api
                /\ Cardinality(CallsOf(out'.trace, "log_call")) = 1]_vars

\* C6, reached: a call qualified, its rule is disabled, and all that was done
\* for it is the evaluation and log_call.
C6_Witness ==
    /\ out.type = "call"
    /\ out.rule = "disabled"
    /\ Len(out.trace) = 2
    /\ out.trace[1].fn = "execute_trigger_parameters"
    /\ out.trace[2].fn = "log_call"
    /\ out.ret = "True"

\* The suspend_machine and resume_machine calls among the calls tr.
MachineCalls(tr) ==
    {i \in 1..Len(tr) : tr[i].fn \in {"suspend_machine", "resume_machine"}}

\* C7: at most one suspension is outstanding at any time; the
\* suspend_machine and resume_machine calls made for a message alternate,
\* starting with suspend_machine; the session is suspended exactly while it
\* waits in the interactive session or the breakpoint, and never when
\* read_next_message has returned and the next message is read.
C7_OneSuspensionAtATime ==
    /\ suspended \in {0, 1}
    /\ (pc \in {"volshell", "breakpoint"}) <=> (suspended = 1)
    /\ (pc = "read") <=> (out.ret = "True")
    /\ \A i \in MachineCalls(out.trace) :
          (out.trace[i].fn = "suspend_machine")
          <=> (Cardinality({j \in MachineCalls(out.trace) : j < i}) % 2 = 0)
    /\ out.ret = "True" => Cardinality(MachineCalls(out.trace)) % 2 = 0

\* C7, reached: one fire ran the interactive session and then the
\* breakpoint, and the message is done.
C7_Witness ==
    /\ out.ret = "True"
    /\ suspended = 0
    /\ Cardinality(CallsOf(out.trace, "suspend_machine")) = 2
    /\ Cardinality(CallsOf(out.trace, "resume_machine")) = 2


\* s is t with something appended.
Extends(s, t) == Len(s) >= Len(t) /\ \A i \in 1..Len(t) : s[i] = t[i]

\* C8: an interactive session suspends execution, waits for the marker, then
\* resumes.  While it waits and the marker is not there, nothing is decoded
\* and nothing resumed, however long it takes; it is left only with the
\* marker there, and then the marker is removed before resume_machine is
\* called; and once the marker is there the session does get left, so that
\* execution resumes and decoding goes on.
C8_VolshellWaitsForMarker ==
    /\ [][/\ (pc = "volshell" /\ ~marker)
             => /\ pc' = "volshell"
                /\ out' = out
                /\ suspended' = suspended
                /\ apis' = apis
          /\ (pc = "volshell" /\ pc' # "volshell")
             => /\ marker
                /\ ~marker'
                /\ suspended = 1
                /\ Extends(out'.trace, out.trace)
                /\ Len(out'.trace) >= Len(out.trace) + 2
                /\ out'.trace[Len(out.trace) + 1].fn = "os.remove"
                /\ out'.trace[Len(out.trace) + 2].fn = "resume_machine"
          /\ (pc # "volshell" /\ pc' = "volshell")
             => /\ out'.trace[Len(out'.trace)].fn = "suspend_machine"
                /\ suspended' = 1]_vars
    /\ (pc = "volshell" /\ marker) ~> (pc # "volshell")

\* C8, reached: an interactive session has been left and its message is
\* done: the marker was removed, then the machine resumed, then the call
\* forwarded.
C8_Witness ==
    /\ out.ret = "True"
    /\ ~marker
    /\ \E i \in 1..Len(out.trace) :
          /\ i + 2 <= Len(out.trace)
          /\ out.trace[i].fn = "os.remove"
          /\ out.trace[i + 1].fn = "resume_machine"
          /\ out.trace[i + 2].fn = "log_call"

RECURSIVE IsSubSeq(_, _)
\* s is t with some entries taken out, the order of the rest kept.
IsSubSeq(s, t) ==
    IF s = << >> THEN TRUE
    ELSE IF t = << >> THEN FALSE
    ELSE IF Head(s) = Head(t) THEN IsSubSeq(Tail(s), Tail(t))
    ELSE IsSubSeq(s, Tail(t))

\* C9: messages are processed one after the other in stream order.  A
\* message is read only when everything for the one before is done; while a
\* trigger action of a message waits, every call made belongs to that
\* message and no call enters Call History; a call is appended to Call
\* History after all calls recorded before it, entries are only ever taken
\* out, never reordered; and log_call is the last thing done for a call.
C9_StreamOrder ==
    [][/\ pc # "read"
          => /\ out'.type = out.type
             /\ out'.api = out.api
             /\ out'.argdict = out.argdict
             /\ out'.before = out.before
             /\ Extends(out'.trace, out.trace)
             /\ out.ret = "pending"
             /\ IsSubSeq(apis', apis)
       /\ pc = "read"
          => /\ out.ret = "True"
             /\ out'.before = apis
             /\ (out'.type = "call" /\ out'.api # "" /\ server)
                => /\ IsSubSeq(apis', apis \o <<[name |-> out'.api,
                                                 args |-> out'.argdict]>>)
                   /\ apis' # << >>
                   /\ apis'[Len(apis')] = [name |-> out'.api,
                                           args |-> out'.argdict]
                   /\ out'.ret = "pending" => Len(apis') = Len(apis) + 1
             /\ ~(out'.type = "call" /\ out'.api # "" /\ server)
                => apis' = apis
       /\ (out'.ret = "True" /\ out'.type = "call"
           /\ out'.api \notin {"", "__process__", "__thread__"})
          => out'.trace[Len(out'.trace)].fn = "log_call"]_vars

\* C9, reached: a call has been read and forwarded after an earlier call
\* whose trigger fired, and stands last in Call History behind it.
C9_Witness ==
    /\ out.type = "call"
    /\ out.ret = "True"
    /\ Len(out.before) >= 1
    /\ apis = out.before \o <<ThisEntry>>
    /\ \E t \in DOMAIN fires : fires[t] >= 1
    /\ CallsOf(out.trace, "reduce_times") = {}
    /\ CallsOf(out.trace, "log_call") # {}

HandlerState == <<infomap, apis, times, fires, bps, volshell_bps, suspended>>

\* The argument names of the schema registered under index i.
SchemaNames(i) == {infomap[i].argnames[k] : k \in 1..Len(infomap[i].argnames)}

\* C11: a call whose index has no registered schema is dropped:
\* read_next_message returns True and the session reads on, no handler
\* callback is made for it, and Call History and the schema table are as
\* they were.  A call whose index has a schema by then, with as many
\* arguments as the schema names, is decoded under that schema.
C11_UnknownIndexDropped ==
    [][ /\ (pc = "read" /\ out'.type = "call" /\ out'.I \notin DOMAIN infomap)
           => /\ out'.ret = "True"
              /\ pc' = "read"
              /\ out'.trace = << >>
              /\ out'.api = ""
              /\ HandlerState' = HandlerState
        /\ (/\ pc = "read" /\ out'.type = "call"
            /\ out'.I \in DOMAIN infomap
            /\ out'.nargs = Len(infomap[out'.I].argnames))
           => /\ out'.api = infomap[out'.I].name
              /\ DOMAIN out'.argdict = SchemaNames(out'.I)
              /\ infomap' = infomap ]_vars

\* A call was dropped for want of a schema while the session had a
\* history and other schemas, and the session reads on.
C11_Witness ==
    /\ out.type = "call"
    /\ out.I \notin DOMAIN infomap
    /\ out.ret = "True"
    /\ out.trace = << >>
    /\ pc = "read"
    /\ infomap # << >>
    /\ apis # << >>

\* C12: a call whose argument count differs from its schema's is dropped:
\* read_next_message returns True and the session reads on; the call is
\* not appended to Call History, no trigger is evaluated for it, it is not
\* forwarded with log_call, and the schema table is as it was.
C12_ArgCountMismatchDropped ==
    [][ (/\ pc = "read" /\ out'.type = "call"
         /\ out'.I \in DOMAIN infomap
         /\ out'.nargs # Len(infomap[out'.I].argnames))
        => /\ out'.ret = "True"
           /\ pc' = "read"
           /\ out'.trace = << >>
           /\ out'.rule = "unread"
           /\ HandlerState' = HandlerState ]_vars

\* A call of a registered index was dropped for its argument count, in a
\* session that records its calls and has recorded some.
C12_Witness ==
    /\ out.type = "call"
    /\ out.I \in DOMAIN infomap
    /\ out.nargs # Len(infomap[out.I].argnames)
    /\ out.ret = "True"
    /\ server
    /\ apis # << >>
    /\ out.before = apis

TriggerCalls(tr) ==
    {i \in 1..Len(tr) : tr[i].fn \in {"execute_trigger_parameters",
                                       "dump_memory"}}

\* Whether the mapping args holds every auxiliary field of aux.
HoldsAux(args, aux) ==
    \A k \in DOMAIN aux : k \in DOMAIN args /\ args[k] = aux[k]

\* C16 as stated: is_success and retval are removed and the auxiliary
\* fields merged before the call reaches the trigger engine, so the
\* arguments given to the trigger evaluation and to dump_memory hold the
\* auxiliary fields and neither is_success nor retval.
C16_TriggerSeesMergedArguments ==
    (out.type = "call" /\ out.api # "")
    => \A i \in TriggerCalls(out.trace) :
          /\ "is_success" \notin DOMAIN out.trace[i].args
          /\ "retval" \notin DOMAIN out.trace[i].args
          /\ HoldsAux(out.trace[i].args, out.aux)

\* C16: is_success and retval are removed from a call's arguments and the
\* auxiliary fields merged into them after the trigger evaluation and
\* before the call is forwarded with log_call: the trigger evaluation and
\* dump_memory are given the decoded argument mapping as it is, is_success
\* and retval included and no auxiliary field added; the arguments of
\* log_call hold the auxiliary fields and neither is_success nor retval,
\* whose values go with the call as its status and return value; and
\* log_call is the last call made for the message.
C16_StatusRemovedAfterTriggers ==
    (out.type = "call" /\ out.api # "")
    => /\ \A i \in TriggerCalls(out.trace) :
             out.trace[i].args = out.argdict
       /\ \A i \in CallsOf(out.trace, "log_call") :
             /\ i = Len(out.trace)
             /\ \A j \in TriggerCalls(out.trace) : j < i
             /\ \A kv \in out.trace[i].args.arguments :
                   kv[1] \notin {"is_success", "retval"}
             /\ \A k \in DOMAIN out.aux :
                   <<k, out.aux[k]>> \in out.trace[i].args.arguments
             /\ \A k \in (DOMAIN out.argdict) \ {"is_success", "retval"} :
                   <<k, out.argdict[k]>> \in out.trace[i].args.arguments
             /\ "is_success" \in DOMAIN out.argdict
                => out.trace[i].args.status = out.argdict["is_success"]
             /\ "retval" \in DOMAIN out.argdict
                => out.trace[i].args.retval = out.argdict["retval"]

\* A call with is_success, retval and an auxiliary field fired its trigger
\* with a memory dump and was forwarded.
C16_Witness ==
    /\ out.type = "call"
    /\ "is_success" \in DOMAIN out.argdict
    /\ "retval" \in DOMAIN out.argdict
    /\ out.aux # << >>
    /\ CallsOf(out.trace, "dump_memory") # {}
    /\ CallsOf(out.trace, "log_call") # {}
    /\ out.ret = "True"

\* C17: the schema table only grows: no step of a session removes an
\* index; only an info message changes the table, and it changes the entry
\* of its own index alone, to the schema it announces; a call is decoded
\* with the entry its index has at that moment, which is therefore the one
\* most recently announced for the index.
C17_SchemaTableGrows ==
    [][ /\ DOMAIN infomap \subseteq DOMAIN infomap'
        /\ infomap' # infomap => pc = "read" /\ out'.type = "info"
        /\ (pc = "read" /\ out'.type = "info")
           => /\ DOMAIN infomap' = (DOMAIN infomap) \cup {out'.I}
              /\ infomap'[out'.I].name = out'.name
              /\ infomap'[out'.I].argnames = out'.arginfo
              /\ \A i \in (DOMAIN infomap) \ {out'.I} :
                    infomap'[i] = infomap[i]
        /\ (pc = "read" /\ out'.type = "call" /\ out'.api # "")
           => /\ out'.I \in DOMAIN infomap
              /\ out'.api = infomap[out'.I].name
              /\ out'.nargs = Len(infomap[out'.I].argnames)
              /\ DOMAIN out'.argdict = SchemaNames(out'.I) ]_vars

\* A call was decoded under the schema of another API than the one its
\* index was first announced with: the index was registered twice and the
\* later schema was used.
C17_Witness ==
    /\ out.type = "call"
    /\ out.api # ""
    /\ out.api # monitor.table[out.I]
    /\ out.api = infomap[out.I].name
    /\ Cardinality(DOMAIN infomap) > 1
    /\ out.ret = "True"

(***************************************************************************)
(* NetlogParser (lib/cuckoo/common/netlog.py): one decoding session of the *)
(* legacy protocol.  A message is its header and its fields as they lie in *)
(* the stream; the content of a string or buffer stands for its length.    *)
(* The caller ends the session when read_next_message returns False.       *)
(***************************************************************************)
MaxMessages == 3    \* messages a legacy session reads

\* A field in the stream.  value: a 32-bit integer (the value of an integer
\* or pointer, the count of a list, the type of a registry value); length,
\* maxlength: the header of a string or buffer; short: the stream ends
\* before the field's data; items: the strings of a list, the datum of a
\* registry value; namelen: the length of the last component of a path.
Datum(value, length, maxlength, short, items, namelen) ==
    [value |-> value, length |-> length, maxlength |-> maxlength,
     short |-> short, items |-> items, namelen |-> namelen]

Word(v) == Datum(v, 0, 0, FALSE, << >>, 0)
Str(l, m) == Datum(0, l, m, FALSE, << >>, 0)
Cut(l, m) == Datum(0, l, m, TRUE, << >>, 0)
List(count, items) == Datum(count, 0, 0, FALSE, items, 0)
Reg(typ, d) == Datum(typ, 0, 0, FALSE, <<d>>, 0)
Path(l, m, namelen) == Datum(0, l, m, FALSE, << >>, namelen)

\* What a reader yields: the exception it raised or its value, and the
\* bytes it took from the stream.
Raise(n) == [raised |-> TRUE, value |-> << >>, read |-> n]
Got(v, n) == [raised |-> FALSE, value |-> v, read |-> n]

\* struct.unpack("I", self.handler.read(4))[0]
read_int32(d) == IF d.short THEN Raise(0) ELSE Got(d.value, 4)

HexDigits ==
    <<"0", "1", "2", "3", "4", "5", "6", "7", "8", "9",
      "a", "b", "c", "d", "e", "f">>

\* "0x%08x" % value
read_ptr(d) ==
    LET r == read_int32(d)
    IN  IF r.raised THEN r
        ELSE Got(<<"0x">> \o [i \in 1..8 |->
                     HexDigits[((r.value \div (16 ^ (8 - i))) % 16) + 1]],
                 r.read)

\* A string or buffer of length bytes, with the tag of a truncated one.
Text(length, tag) == [bytes |-> length, tag |-> tag]

\* length, maxlength = struct.unpack("II", self.handler.read(8)); the guard
\* on length; s = self.handler.read(length)
read_string(d) ==
    IF d.length < 0 \/ d.length > 65536 THEN Raise(8)
    ELSE IF d.short THEN Raise(8)
    ELSE Got(Text(d.length, IF d.maxlength > d.length
                            THEN "... (truncated)" ELSE ""),
             8 + d.length)

\* length, maxlength = struct.unpack("II", self.handler.read(8));
\* buf = self.handler.read(length)
read_buffer(d) ==
    IF d.short THEN Raise(8)
    ELSE Got(Text(d.length, IF d.maxlength > d.length
                            THEN " ... (truncated)" ELSE ""),
             8 + d.length)

\* for x in xrange(count): item = fn(); ret.append(item), for fn = read_string
RECURSIVE read_items(_, _)
read_items(count, items) ==
    IF count = 0 THEN Got(<< >>, 0)
    ELSE IF items = << >> THEN Raise(0)
    ELSE LET r == read_string(Head(items))
         IN  IF r.raised THEN r
             ELSE LET rest == read_items(count - 1, Tail(items))
                  IN  IF rest.raised THEN Raise(r.read + rest.read)
                      ELSE Got(<<r.value>> \o rest.value, r.read + rest.read)

\* count = struct.unpack("I", self.handler.read(4))[0], then the items
read_list(d) ==
    IF d.short THEN Raise(0)
    ELSE LET r == read_items(d.value, d.items)
         IN  [r EXCEPT !.read = @ + 4]

read_argv(d) == read_list(d)

\* typ = struct.unpack("I", self.handler.read(4))[0], then its value
read_registry(d) ==
    IF d.short THEN Raise(0)
    ELSE LET r ==
               CASE d.value \in {"REG_DWORD_BIG_ENDIAN",
                                 "REG_DWORD_LITTLE_ENDIAN"} ->
                      read_int32(d.items[1])
                 [] d.value \in {"REG_SZ", "REG_EXPAND_SZ"} ->
                      read_string(d.items[1])
                 [] OTHER -> Got("(unable to dump buffer content)", 0)
         IN  [r EXCEPT !.read = @ + 4]

\* self.formatmap
StringFormats == {"s", "S", "u", "U", "o", "O"}
BufferFormats == {"b", "B"}
IntFormats == {"i", "l", "L"}
PtrFormats == {"p", "P"}
ArgvFormats == {"a", "A"}
RegistryFormats == {"r", "R"}

formatmap ==
    StringFormats \cup BufferFormats \cup IntFormats \cup PtrFormats
    \cup ArgvFormats \cup RegistryFormats

\* fn = self.formatmap.get(fs, None); r = fn()
ReadField(fs, d) ==
    CASE fs \in StringFormats -> read_string(d)
      [] fs \in BufferFormats -> read_buffer(d)
      [] fs \in IntFormats -> read_int32(d)
      [] fs \in PtrFormats -> read_ptr(d)
      [] fs \in ArgvFormats -> read_argv(d)
      [] fs \in RegistryFormats -> read_registry(d)

Digits == <<"0", "1", "2", "3", "4", "5", "6", "7", "8", "9">>

\* int(x) for a digit x
DigitValue(x) == (CHOOSE i \in 1..10 : Digits[i] = x) - 1

\* out += fs[i+1] * int(x)
Repeat(x, n) == [i \in 1..n |-> x]

\* x in string.digits
IsDigit(x) == \E i \in 1..10 : Digits[i] = x

\* What fs[i+1] raises for a digit at the end of fs.
IndexError == <<"IndexError">>

\* expand_format for a scan that does not step over the character a digit
\* repeats.
RECURSIVE expand_format_NoSkip(_)
expand_format_NoSkip(fs) ==
    IF fs = << >> THEN << >>
    ELSE IF IsDigit(Head(fs)) /\ Len(fs) < 2 THEN IndexError
    ELSE LET rest == expand_format_NoSkip(Tail(fs))
         IN  IF rest = IndexError THEN IndexError
             ELSE IF IsDigit(Head(fs))
             THEN Repeat(fs[2], DigitValue(Head(fs))) \o rest
             ELSE <<Head(fs)>> \o rest

\* A digit repeats the character after it, and the scan goes on after that
\* character; a digit at the end of fs raises IndexError.
RECURSIVE expand_format(_)
expand_format(fs) ==
    IF fs = << >> THEN << >>
    ELSE IF IsDigit(Head(fs)) /\ Len(fs) < 2 THEN IndexError
    ELSE LET rest == IF IsDigit(Head(fs))
                     THEN expand_format(Tail(Tail(fs)))
                     ELSE expand_format(Tail(fs))
         IN  IF rest = IndexError THEN IndexError
             ELSE IF IsDigit(Head(fs))
             THEN Repeat(fs[2], DigitValue(Head(fs))) \o rest
             ELSE <<Head(fs)>> \o rest

\* lib.cuckoo.common.logtbl: the static table of (apiname, modulename,
\* parseinfo), parseinfo being the format and the argument names.  The
\* entry of API index i is LOGTBL[i + 1].
Api(apiname, modulename, format, argnames) ==
    [apiname |-> apiname, modulename |-> modulename, format |-> format,
     argnames |-> argnames]

LOGTBL ==
    << Api("__process__", "__init__", << >>, << >>),
       Api("__thread__", "__init__", << >>, << >>),
       Api("NtWriteFile", "filesystem", <<"p", "b">>,
           <<"FileHandle", "Buffer">>),
       Api("MoveFileWithProgressW", "filesystem", <<"2", "u">>,
           <<"ExistingFileName", "NewFileName">>),
       Api("RegSetValueExA", "registry", <<"p", "r">>,
           <<"Handle", "Buffer">>),
       Api("CreateProcessInternalW", "process", <<"a", "x">>,
           <<"CommandLine", "Flags">>) >>

\* The strings and buffers a stream holds: short ones, whole and truncated,
\* one of the greatest accepted length, one longer, one cut off.
StrData ==
    {Str(5, 5), Str(5, 9), Str(65536, 65536), Str(65537, 65537), Cut(5, 5)}

\* The data a stream holds at a field of format fs.
DataFor(fs) ==
    CASE fs \in StringFormats \cup BufferFormats -> StrData
      [] fs \in IntFormats \cup PtrFormats -> {Word(4096)}
      [] fs \in ArgvFormats ->
           {List(1, <<Str(5, 5)>>), List(2, <<Str(5, 5)>>),
            List(2, <<Str(5, 5), Str(65537, 65537)>>)}
      [] fs \in RegistryFormats ->
           {Reg("REG_SZ", Str(5, 9)), Reg("REG_SZ", Str(65537, 65537)),
            Reg("REG_DWORD_LITTLE_ENDIAN", Word(7)), Reg("REG_BINARY", Word(0))}
      [] OTHER -> {Word(0)}

\* The field data of the messages of an API with the expanded format fss.
RECURSIVE Streams(_)
Streams(fss) ==
    IF fss = << >> THEN { << >> }
    ELSE { <<d>> \o rest : d \in DataFor(Head(fss)), rest \in Streams(Tail(fss)) }

\* A message of the legacy protocol: the API index of its header, the two
\* halves of the FILETIME, pid and module path of a process message, and
\* the fields of an API call.
LegacyMessage(apiindex, timehigh, path, data) ==
    [apiindex |-> apiindex, timelow |-> Word(0), timehigh |-> Word(timehigh),
     pid |-> Word(1234), ppid |-> Word(4), path |-> path, data |-> data]

\* timehigh of a date in 2009 and of one after the year 9999.
TimeHighs == {30000000, 700000000}

\* Module paths: a usual one; names of 255 and 256 bytes; a truncated path
\* whose name is 245 bytes; a length beyond the guard; a stream cut off.
Paths ==
    {Path(20, 20, 5), Path(300, 300, 255), Path(300, 300, 256),
     Path(250, 300, 245), Path(65537, 65537, 5), Cut(20, 20)}

LegacyMessages ==
    { LegacyMessage(0, t, p, << >>) : t \in TimeHighs, p \in Paths }
    \cup { LegacyMessage(1, 0, Str(0, 0), << >>) }
    \cup UNION { { LegacyMessage(i, 0, Str(0, 0), data)
                    : data \in Streams(expand_format(LOGTBL[i + 1].format)) }
                 : i \in 2..(Len(LOGTBL) - 1) }
    \cup { LegacyMessage(Len(LOGTBL), 0, Str(0, 0), << >>) }

\* vmtimeunix = (timelow + (timehigh << 32)) / 10000000.0 - 11644473600,
\* counted in units of 2^32 / 10^7 seconds, the weight of timehigh, of
\* which timelow makes less than one.
vmtimeunix(timelow, timehigh) == timehigh - 27111902

\* datetime.datetime.fromtimestamp raises past the year 9999, which is
\* 253402300799 seconds, 589999690 of the units of vmtimeunix.
fromtimestamp_raises(t) == t > 589999690

\* len(s) of a string or buffer with its tag.
TextLen(t) ==
    t.bytes + (CASE t.tag = "" -> 0
                 [] t.tag = "... (truncated)" -> 15
                 [] OTHER -> 16)

\* get_filename_from_path(modulepath): the last component of the path,
\* with the tag that was appended to the path.
get_filename_from_path(d, modulepath) == Text(d.namelen, modulepath.tag)

\* The fields of an API call from position pos on.  raised: the position
\* of the field whose reader raised, 0 if none did; reads: the bytes read
\* of each field that was tried.
RECURSIVE ReadFields(_, _, _, _)
ReadFields(fss, argnames, data, pos) ==
    IF pos > Len(fss) THEN [raised |-> 0, arguments |-> << >>, reads |-> << >>]
    ELSE IF fss[pos] \notin formatmap
    THEN LET rest == ReadFields(fss, argnames, data, pos + 1)
         IN  [rest EXCEPT !.reads = <<0>> \o @]
    ELSE LET r == ReadField(fss[pos], data[pos])
         IN  IF r.raised
             THEN [raised |-> pos, arguments |-> << >>, reads |-> <<r.read>>]
             ELSE LET rest == ReadFields(fss, argnames, data, pos + 1)
                  IN  [raised |-> rest.raised,
                       arguments |-> IF rest.raised # 0 THEN << >>
                                     ELSE << <<argnames[pos], r.value>> >>
                                          \o rest.arguments,
                       reads |-> <<r.read>> \o rest.reads]

RECURSIVE Sum(_)
Sum(ns) == IF ns = << >> THEN 0 ELSE Head(ns) + Sum(Tail(ns))

\* legacy: the messages read so far (n), whether the session is over, and
\* of the message read last: the message, what read_next_message returned,
\* the bytes read of it, the expanded format of its API and the bytes read
\* of each field, what made the decoder give up ("" if nothing did) and at
\* which field, and the handler callbacks made for it; logged counts the
\* callbacks of the session.
Legacy(n, m, ret, read, fss, reads, raised, at, tr, logged) ==
    [n |-> n, ended |-> ret = "False", msg |-> m, ret |-> ret, read |-> read,
     formats |-> fss, reads |-> reads, raised |-> raised, at |-> at,
     trace |-> tr, logged |-> logged + Len(tr)]

LegacyInit ==
    /\ BsonIdle
    /\ analysis = << >>
    /\ applied = << >>
    /\ legacy = Legacy(0, LegacyMessage(1, 0, Str(0, 0), << >>), "none", 0,
                       << >>, << >>, "", 0, << >>, 0)

\* What read_next_message leaves of message m.
LegacyDone(m, ret, read, fss, reads, raised, at, tr) ==
    /\ legacy' = Legacy(legacy.n + 1, m, ret, read, fss, reads, raised, at, tr,
                        legacy.logged)
    /\ UNCHANGED <<analysis, applied>>
    /\ UNCHANGED bsonvars

\* apiindex == 0: a process message.  Header 14 bytes, FILETIME 8 bytes,
\* pid and ppid 8 bytes, the module path.
LegacyReadProcess ==
    /\ ~legacy.ended
    /\ legacy.n < MaxMessages
    /\ \E m \in LegacyMessages :
          /\ m.apiindex = 0
          /\ LET vmtime == vmtimeunix(read_int32(m.timelow).value,
                                      read_int32(m.timehigh).value)
                 s == read_string(m.path)
                 procname == get_filename_from_path(m.path, s.value)
             IN  IF fromtimestamp_raises(vmtime)
                 THEN LegacyDone(m, "False", 14 + 8, << >>, << >>,
                                 "timestamp", 0, << >>)
                 ELSE IF s.raised
                 THEN LegacyDone(m, "False", 14 + 8 + 8 + s.read, << >>, << >>,
                                 "modulepath", 0, << >>)
                 ELSE IF TextLen(procname) > 255
                 THEN LegacyDone(m, "False", 14 + 8 + 8 + s.read, << >>, << >>,
                                 "procname", 0, << >>)
                 ELSE LegacyDone(m, "True", 14 + 8 + 8 + s.read, << >>, << >>,
                                 "", 0,
                                 <<Ev("log_process", "__process__",
                                      [vmtime |-> vmtime,
                                       pid |-> read_int32(m.pid).value,
                                       ppid |-> read_int32(m.ppid).value,
                                       modulepath |-> s.value,
                                       procname |-> procname])>>)

\* apiindex == 1: a thread message.
LegacyReadThread ==
    /\ ~legacy.ended
    /\ legacy.n < MaxMessages
    /\ \E m \in LegacyMessages :
          /\ m.apiindex = 1
          /\ LegacyDone(m, "True", 14 + 4, << >>, << >>, "", 0,
                        <<Ev("log_thread", "__thread__",
                             [pid |-> read_int32(m.pid).value])>>)

\* LegacyReadCall for a decoder that forwards what it has decoded when a
\* field cannot be read.
LegacyReadCall_ForwardsPartial ==
    /\ ~legacy.ended
    /\ legacy.n < MaxMessages
    /\ \E m \in LegacyMessages :
          /\ m.apiindex > 1
          /\ IF m.apiindex + 1 > Len(LOGTBL)
             THEN LegacyDone(m, "False", 14, << >>, << >>, "index", 0, << >>)
             ELSE LET api == LOGTBL[m.apiindex + 1]
                      fss == expand_format(api.format)
                      r == ReadFields(fss, api.argnames, m.data, 1)
                  IN  LegacyDone(m, "True", 14 + Sum(r.reads), fss, r.reads,
                                 IF r.raised # 0 THEN "field" ELSE "",
                                 r.raised,
                                 <<Ev("log_call", api.apiname,
                                      [modulename |-> api.modulename,
                                       arguments |-> r.arguments])>>)

\* Any other apiindex: an API call, decoded field by field as the table
\* says.
LegacyReadCall ==
    /\ ~legacy.ended
    /\ legacy.n < MaxMessages
    /\ \E m \in LegacyMessages :
          /\ m.apiindex > 1
          /\ IF m.apiindex + 1 > Len(LOGTBL)
             THEN LegacyDone(m, "False", 14, << >>, << >>, "index", 0, << >>)
             ELSE LET api == LOGTBL[m.apiindex + 1]
                      fss == expand_format(api.format)
                      r == ReadFields(fss, api.argnames, m.data, 1)
                  IN  IF r.raised # 0
                      THEN LegacyDone(m, "False", 14 + Sum(r.reads), fss,
                                      r.reads, "field", r.raised, << >>)
                      ELSE LegacyDone(m, "True", 14 + Sum(r.reads), fss,
                                      r.reads, "", 0,
                                      <<Ev("log_call", api.apiname,
                                           [modulename |-> api.modulename,
                                            arguments |-> r.arguments])>>)

LegacyNext ==
    \/ LegacyReadProcess
    \/ LegacyReadThread
    \/ LegacyReadCall

LegacySpec == LegacyInit /\ [][LegacyNext]_vars

\* The fields of the call read last that a reader was tried on and whose
\* format is one of fs.
FieldsRead(fs) ==
    {pos \in 1..Len(legacy.reads) : legacy.formats[pos] \in fs}

\* C14: for read_string and read_buffer alike, a declared length above
\* 0x10000 raises after the 8 bytes of the header, nothing more is read
\* of the stream and read_next_message ends the session; a length from 0
\* to 0x10000 is accepted and the field read whole.
C14_LengthGuardOnBothReaders ==
    \A pos \in FieldsRead({"s", "S", "u", "U", "o", "O", "b", "B"}) :
       /\ legacy.msg.data[pos].length > 65536
          => /\ legacy.reads[pos] = 8
             /\ legacy.ret = "False"
             /\ legacy.ended
             /\ legacy.trace = << >>
       /\ (legacy.msg.data[pos].length <= 65536 /\ ~legacy.msg.data[pos].short)
          => /\ legacy.reads[pos] = 8 + legacy.msg.data[pos].length
             /\ legacy.at # pos

\* C15: when reading a field of an API call raises, read_next_message
\* returns False, the session is over and log_call is not made, whatever
\* was decoded of the message before; a process message whose timestamp is
\* out of range or whose process name is longer than 255 bytes returns
\* False without log_process; and nothing is read after a False.
C15_LegacyErrorsEndSession ==
    [][ /\ ~legacy.ended
        /\ legacy'.raised \in {"field", "timestamp", "procname"}
           => /\ legacy'.ret = "False"
              /\ legacy'.ended
              /\ legacy'.trace = << >>
              /\ legacy'.logged = legacy.logged
        /\ (legacy'.msg.apiindex = 0 /\ legacy'.ret = "True")
           => /\ legacy'.msg.path.namelen <= 255
              /\ legacy'.msg.timehigh.value < 700000000 ]_vars

\* The second field of a call could not be read after its first had been,
\* in a session that had decoded a message before: nothing was forwarded.
C15_Witness ==
    /\ legacy.n > 1
    /\ legacy.logged > 0
    /\ legacy.msg.apiindex > 1
    /\ legacy.raised = "field"
    /\ legacy.at > 1
    /\ legacy.ret = "False"
    /\ legacy.trace = << >>

(***************************************************************************)
(* MemoryAnalysis (modules/processing/memoryanalysis.py): the facet        *)
(* resolver run_dependencies, the diff functions and run_memory_plugin,    *)
(* on the two snapshots of one analysis.  A snapshot maps a facet name to  *)
(* its data, a list of records; the diff functions are given the two      *)
(* snapshots themselves, so each is modelled by its result together with   *)
(* the snapshots as it leaves them.                                        *)
(***************************************************************************)
\* The elements of a list.
Set(list) == {list[i] : i \in 1..Len(list)}

\* The lists of a list of lists, one after the other.
RECURSIVE Flatten(_)
Flatten(lists) ==
    IF lists = << >> THEN << >> ELSE Head(lists) \o Flatten(Tail(lists))

\* One facet of a snapshot, as a volatility plugin returns it.
Facet(data) == [data |-> data]

\* A dict of a flat facet is the list of its items, in the order in which
\* the plugin's output holds them.
Keys(d) == {d[i][1] : i \in 1..Len(d)}
Get(d, key) == d[CHOOSE i \in 1..Len(d) : d[i][1] = key][2]

\* The same dict with its items in the opposite order.
Reordered(d) == [i \in 1..Len(d) |-> d[Len(d) + 1 - i]]

\* Records of the flat facets.
Proc(pid, name) == << <<"process_id", pid>>, <<"process_name", name>> >>
Handle(pid, value, count) ==
    << <<"process_id", pid>>, <<"handle_value", value>>,
       <<"handle_count", count>> >>
Conn(lport, rport, raddr) ==
    << <<"local_port", lport>>, <<"remote_port", rport>>,
       <<"remote_address", raddr>> >>
Timer(offset, period) == << <<"offset", offset>>, <<"period", period>> >>
Mutant(name, count) == << <<"mutant_name", name>>, <<"handle_count", count>> >>
Service(name, state) == << <<"service_name", name>>, <<"state", state>> >>

\* Records of the nested facets.
Module(name) == [dll_full_name |-> name]
DllProc(pid, name, modules) ==
    [process_id |-> pid, process_name |-> name, loaded_modules |-> modules]
Device(name, type) == [device_name |-> name, device_type |-> type]
Driver(name, devices) == [driver_name |-> name, devices |-> devices]

\* What a diff function leaves: its result and the two snapshots.
Diffed(result, old, new) == [result |-> result, old |-> old, new |-> new]

\* hashabledict(d): a dict, equal to another when both have the same keys
\* with the same values, hashed by its sorted items.
hashabledict(d) == [key \in Keys(d) |-> Get(d, key)]

\* The hashabledicts of the facets deps of a snapshot.
United(snapshot, deps) ==
    UNION {{hashabledict(d) : d \in Set(snapshot[deps[i]].data)} :
              i \in 1..Len(deps)}

\* get_new_objects for a diff against the first facet of old only.
get_new_objects_FirstDep(old, new, deps) ==
    Diffed(United(new, deps) \ United(old, <<deps[1]>>), old, new)

\* set(hashabledict(d) for d in new[dep]['data']) over deps, minus the same
\* of old
get_new_objects(old, new, deps) ==
    Diffed(United(new, deps) \ United(old, deps), old, new)

\* get_new_by_field for a match on any one of fields.
get_new_by_field_AnyField(old, new, deps, fields) ==
    Diffed({o \in get_new_objects(old, new, deps).result :
              ~\E o2 \in Set(old[deps[1]].data) :
                   \E f \in fields : o[f] = Get(o2, f)},
           old, new)

\* The objects of get_new_objects that no record of old[deps[0]] equals on
\* all of fields.
get_new_by_field(old, new, deps, fields) ==
    Diffed({o \in get_new_objects(old, new, deps).result :
              ~\E o2 \in Set(old[deps[1]].data) :
                   \A f \in fields : o[f] = Get(o2, f)},
           old, new)

get_new_handles(old, new, deps) ==
    get_new_by_field(old, new, deps, {"process_id", "handle_value"})

get_new_timers(old, new, deps) ==
    get_new_by_field(old, new, deps, {"offset"})

get_new_mutants(old, new, deps) ==
    get_new_by_field(old, new, deps, {"mutant_name"})

get_new_processes(old, new, deps) ==
    get_new_by_field(old, new, deps, {"process_id"})

get_new_services(old, new, deps) ==
    get_new_by_field(old, new, deps, {"service_name"})

\* get_new_connections for a filter that drops a record only if its local
\* port, its remote port and its remote address are all excluded ones.
get_new_connections_AllThree(old, new, deps) ==
    Diffed({c \in get_new_objects(old, new, deps).result :
              ~(/\ c.local_port = 8000
                /\ c.remote_port = 2042
                /\ c.remote_address = "293.268.122.1")},
           old, new)

\* The objects of get_new_objects that are not the analysis' own traffic.
get_new_connections(old, new, deps) ==
    Diffed({c \in get_new_objects(old, new, deps).result :
              ~(\/ c.local_port = 8000
                \/ c.remote_port = 2042
                \/ c.remote_address = "293.268.122.1")},
           old, new)

\* The devices of the new drivers that no device of an old driver equals
\* in name and type, in the order of new.
get_new_devices(old, new, deps) ==
    LET old_devices == Flatten([i \in 1..Len(old[deps[1]].data) |->
                                   old[deps[1]].data[i].devices])
        new_devices == Flatten([i \in 1..Len(new[deps[1]].data) |->
                                   new[deps[1]].data[i].devices])
        is_new(d) == ~\E o \in Set(old_devices) :
                        /\ o.device_name = d.device_name
                        /\ o.device_type = d.device_type
    IN  Diffed(SelectSeq(new_devices, is_new), old, new)

\* module['process_id'] = pid; module['process_name'] = pname
Tagged(module, pid, pname) ==
    [k \in (DOMAIN module) \cup {"process_id", "process_name"} |->
        CASE k = "process_id" -> pid
          [] k = "process_name" -> pname
          [] OTHER -> module[k]]

\* OldProcess for a diff that takes the first process of old, whatever
\* its process id.
OldProcess_AnyPid(old, pid) ==
    LET data == old["dlllist"].data
    IN  IF data = << >> THEN << >> ELSE <<data[1]>>

\* old_p: the first process of old with the process id pid, << >> if none.
OldProcess(old, pid) ==
    LET data == old["dlllist"].data
        at == {i \in 1..Len(data) : data[i].process_id = pid}
    IN  IF at = {} THEN << >>
        ELSE <<data[CHOOSE i \in at : \A j \in at : i <= j]>>

\* NewModule for a diff that takes every module of a process for new that
\* old has no process of the same id for.
NewModule_UnmatchedIsNew(old, proc, module) ==
    LET old_p == OldProcess(old, proc.process_id)
    IN  \/ old_p = << >>
        \/ ~\E m \in Set(old_p[1].loaded_modules) :
               m.dll_full_name = module.dll_full_name

\* Whether get_new_dlllist takes the module of proc for a new one.
NewModule(old, proc, module) ==
    LET old_p == OldProcess(old, proc.process_id)
    IN  /\ old_p # << >>
        /\ ~\E m \in Set(old_p[1].loaded_modules) :
               m.dll_full_name = module.dll_full_name

\* The process proc of new once get_new_dlllist has gone through its
\* modules: the new ones carry the process id and name.
TagProcess(old, proc) ==
    [proc EXCEPT !.loaded_modules =
        [i \in 1..Len(@) |->
            IF NewModule(old, proc, @[i])
            THEN Tagged(@[i], proc.process_id, proc.process_name)
            ELSE @[i]]]

\* The new modules of the process proc of new, as get_new_dlllist leaves
\* them.
FreshModules(old, proc) ==
    LET fresh == SelectSeq(proc.loaded_modules,
                           LAMBDA m : NewModule(old, proc, m))
    IN  [i \in 1..Len(fresh) |->
            Tagged(fresh[i], proc.process_id, proc.process_name)]

\* The modules of the processes of new that the process of the same id in
\* old has not loaded; they are the records of new themselves, and the
\* process id and name are written into them.
get_new_dlllist(old, new, deps) ==
    LET data == new["dlllist"].data
    IN  Diffed(Flatten([i \in 1..Len(data) |-> FreshModules(old, data[i])]),
               old,
               [new EXCEPT !["dlllist"] =
                   Facet([i \in 1..Len(data) |-> TagProcess(old, data[i])])])

\* memoryanalysisconsts.MEMORY_ANALYSIS_DEPENDENCIES: the facets each
\* analysis needs.
MEMORY_ANALYSIS_DEPENDENCIES ==
    [diff_handles |-> <<"handles">>,
     diff_processes |-> <<"pslist">>,
     diff_timers |-> <<"timers">>,
     diff_mutants |-> <<"mutantscan">>,
     diff_services |-> <<"svcscan">>,
     diff_connections |-> <<"connections">>,
     diff_sockets |-> <<"sockets", "connections">>,
     diff_devicetree |-> <<"devicetree">>,
     diff_dlllist |-> <<"dlllist">>]

\* memoryanalysisconsts.MEMORY_ANALYSIS_FUNCTIONS: the diff function of an
\* analysis that has one of its own.
MEMORY_ANALYSIS_FUNCTIONS ==
    [diff_handles |-> "get_new_handles",
     diff_processes |-> "get_new_processes",
     diff_timers |-> "get_new_timers",
     diff_mutants |-> "get_new_mutants",
     diff_services |-> "get_new_services",
     diff_connections |-> "get_new_connections",
     diff_devicetree |-> "get_new_devices",
     diff_dlllist |-> "get_new_dlllist"]

\* analysis_func(old, new, deps)
analysis_func(memfunc, old, new, deps) ==
    IF memfunc \in DOMAIN MEMORY_ANALYSIS_FUNCTIONS
    THEN CASE MEMORY_ANALYSIS_FUNCTIONS[memfunc] = "get_new_handles" ->
                get_new_handles(old, new, deps)
           [] MEMORY_ANALYSIS_FUNCTIONS[memfunc] = "get_new_processes" ->
                get_new_processes(old, new, deps)
           [] MEMORY_ANALYSIS_FUNCTIONS[memfunc] = "get_new_timers" ->
                get_new_timers(old, new, deps)
           [] MEMORY_ANALYSIS_FUNCTIONS[memfunc] = "get_new_mutants" ->
                get_new_mutants(old, new, deps)
           [] MEMORY_ANALYSIS_FUNCTIONS[memfunc] = "get_new_services" ->
                get_new_services(old, new, deps)
           [] MEMORY_ANALYSIS_FUNCTIONS[memfunc] = "get_new_connections" ->
                get_new_connections(old, new, deps)
           [] MEMORY_ANALYSIS_FUNCTIONS[memfunc] = "get_new_devices" ->
                get_new_devices(old, new, deps)
           [] MEMORY_ANALYSIS_FUNCTIONS[memfunc] = "get_new_dlllist" ->
                get_new_dlllist(old, new, deps)
    ELSE get_new_objects(old, new, deps)

\* The memory dumps of an analysis: what the volatility plugins find in the
\* clean dump and in the dump taken at the trigger.
Dump(clean, new) == [clean |-> clean, new |-> new]

Dumps ==
    { Dump([handles |-> Facet(<<Handle(4, "a", 1), Handle(8, "a", 1),
                                Handle(8, "c", 1)>>)],
           [handles |-> Facet(<<Handle(4, "a", 2), Handle(4, "b", 1),
                                Reordered(Handle(8, "a", 1)),
                                Handle(4, "b", 1)>>)]),
      Dump([timers |-> Facet(<<Timer(16, 100)>>),
            mutantscan |-> Facet(<<Mutant("m", 1), Mutant("gone", 1)>>)],
           [timers |-> Facet(<<Timer(16, 200), Timer(32, 100)>>),
            mutantscan |-> Facet(<<Mutant("m", 2), Mutant("evil", 1)>>)]),
      Dump([svcscan |-> Facet(<<Service("s", "stopped")>>)],
           [svcscan |-> Facet(<<Service("s", "running"),
                                Service("drv", "running")>>)]),
      Dump([pslist |-> Facet(<<Proc(4, "System"), Proc(8, "old.exe")>>)],
           [pslist |-> Facet(<<Proc(4, "System"), Proc(12, "m.exe")>>)]),
      Dump([connections |-> Facet(<<Conn(8000, 1, "10.0.0.1"),
                                    Conn(1030, 80, "10.0.0.3")>>),
            sockets |-> Facet(<<Conn(1027, 0, "0.0.0.0"),
                                Conn(1028, 0, "0.0.0.0")>>)],
           [connections |-> Facet(<<Conn(8000, 1, "10.0.0.1"),
                                    Conn(8000, 2, "10.0.0.1"),
                                    Conn(1025, 2042, "10.0.0.1"),
                                    Conn(1029, 80, "293.268.122.1"),
                                    Conn(1026, 80, "10.0.0.2"),
                                    Conn(1027, 0, "0.0.0.0")>>),
            sockets |-> Facet(<<Conn(1026, 0, "0.0.0.0"),
                                Reordered(Conn(1027, 0, "0.0.0.0")),
                                Reordered(Conn(1030, 80, "10.0.0.3")),
                                Conn(1026, 0, "0.0.0.0")>>)]),
      Dump([devicetree |-> Facet(<<Driver("a.sys", <<Device("A", 1)>>)>>)],
           [devicetree |-> Facet(<<Driver("a.sys", <<Device("A", 1),
                                                     Device("A", 2)>>),
                                   Driver("rk.sys", <<Device("R", 1)>>)>>)]),
      Dump([dlllist |-> Facet(<<DllProc(4, "a.exe", <<Module("k.dll")>>),
                                DllProc(8, "b.exe", <<Module("k.dll"),
                                                     Module("old.dll")>>),
                                DllProc(16, "gone.exe",
                                        <<Module("g.dll")>>)>>)],
           [dlllist |-> Facet(<<DllProc(4, "a.exe", <<Module("k.dll"),
                                                     Module("inj.dll")>>),
                                DllProc(8, "b.exe", <<Module("k.dll")>>),
                                DllProc(12, "m.exe", <<Module("k.dll"),
                                                      Module("m.dll")>>)>>)]),
      Dump([dlllist |-> Facet(<<DllProc(4, "a.exe", <<Module("A")>>)>>)],
           [dlllist |-> Facet(<<DllProc(4, "a.exe", <<Module("A"),
                                                     Module("B")>>)>>)]) }

\* The analyses whose facets a dump has.
Memfuncs(dump) ==
    {m \in DOMAIN MEMORY_ANALYSIS_DEPENDENCIES :
        \A i \in 1..Len(MEMORY_ANALYSIS_DEPENDENCIES[m]) :
           MEMORY_ANALYSIS_DEPENDENCIES[m][i] \in DOMAIN dump.clean}

\* mapping with value under key (results[dep] = ..., diffs[memfunc] = ...)
Store(mapping, key, value) ==
    [k \in (DOMAIN mapping) \cup {key} |->
        IF k = key THEN value ELSE mapping[k]]

\* getattr(conf, memfunc).desc
Desc(memfunc) == <<"desc", memfunc>>

\* run_dependencies for a resolver that computes what it is asked for.
RECURSIVE run_dependencies_Recomputes(_, _, _)
run_dependencies_Recomputes(results, dependencies, plugins) ==
    IF dependencies = << >> THEN [results |-> results, ran |-> << >>]
    ELSE LET dep == Head(dependencies)
             rest == run_dependencies_Recomputes(
                         Store(results, dep, plugins[dep]),
                         Tail(dependencies), plugins)
         IN  [rest EXCEPT !.ran = <<dep>> \o @]

\* for dep in dependencies: if not results.has_key(dep):
\*     results[dep] = getattr(self.vol_manager, dep)(**attrs)
\* plugins: what each plugin of the vol_manager returns; ran: the plugins
\* that were run, in order.
RECURSIVE run_dependencies(_, _, _)
run_dependencies(results, dependencies, plugins) ==
    IF dependencies = << >> THEN [results |-> results, ran |-> << >>]
    ELSE LET dep == Head(dependencies)
         IN  IF dep \in DOMAIN results
             THEN run_dependencies(results, Tail(dependencies), plugins)
             ELSE LET rest == run_dependencies(
                                  Store(results, dep, plugins[dep]),
                                  Tail(dependencies), plugins)
                  IN  [rest EXCEPT !.ran = <<dep>> \o @]

MaxRuns == 2        \* runs of one plugin on one dump

\* How often dep occurs in the list ran.
Runs(ran, dep) == Cardinality({i \in 1..Len(ran) : ran[i] = dep})

\* The triggers a pass is run at: one without follow-up and the three
\* chains, whose follow-ups write the injected entries.  (The follow-ups of
\* VirtualProtectEx and ZwLoadDriver write into the entries of analyses the
\* dumps here have no facets for.)
Triggers == {"socket", SetCtxResume, WriteRemote, WriteRemoteLoad}

\* analysis: the two dumps; enabled: the analyses that memory.conf enables;
\* smart: smart_analysis of parse_trigger_plugins for the trigger of the
\* new dump; plugins: TRIGGER_PLUGINS of that trigger; results: the
\* snapshot of each dump, facet by facet as resolved (the clean one is
\* clean_data, the other new_results); diffs: mem_analysis["diffs"]; ran:
\* how often each plugin has been run on each dump; done: whether
\* run_memory_analysis has gone through the escalation; last: the call made
\* last, the plugins it ran and how often it called the diff function.
\* is_clean: whether the pass is the one over the clean dump, which only
\* resolves facets; trigger: self.info["trigger"]["name"] of a pass at a
\* trigger; injected: the entries injected_thread and injected_dll of
\* mem_analysis["diffs"], which are no analyses of memory.conf and are kept
\* apart from the entries of the analyses; followup: the follow-up of the
\* trigger that was run, "" when none.
Last(op, snap, memfunc, ran, invoked) ==
    [op |-> op, snap |-> snap, memfunc |-> memfunc, ran |-> ran,
     invoked |-> invoked]

AnalysisInit ==
    /\ BsonIdle
    /\ legacy = << >>
    /\ applied = << >>
    /\ \E dump \in Dumps, smart \in BOOLEAN :
       \E enabled \in SUBSET Memfuncs(dump) :
       \E plugins \in SUBSET Memfuncs(dump) :
       \E trigger \in Triggers, is_clean \in BOOLEAN :
          analysis = [dump |-> dump,
                      enabled |-> enabled,
                      smart |-> smart,
                      plugins |-> plugins,
                      trigger |-> trigger,
                      is_clean |-> is_clean,
                      injected |-> << >>,
                      followup |-> "",
                      done |-> FALSE,
                      results |-> [clean |-> << >>, new |-> << >>],
                      diffs |-> << >>,
                      ran |-> [s \in {"clean", "new"} |->
                                 [f \in DOMAIN dump.clean |-> 0]],
                      last |-> Last("none", "", "", << >>, 0)]

\* run_memory_analysis, for an enabled analysis: its dependencies are
\* resolved on self.results in the clean pass, on new_results otherwise.
RunDependencies ==
    /\ \E snap \in {"clean", "new"} : \E m \in analysis.enabled :
          LET deps == MEMORY_ANALYSIS_DEPENDENCIES[m]
              r == run_dependencies(analysis.results[snap], deps,
                                    analysis.dump[snap])
          IN  /\ analysis.is_clean => snap = "clean"
              /\ \A f \in DOMAIN analysis.ran[snap] :
                    analysis.ran[snap][f] < MaxRuns
              /\ analysis' =
                    [analysis EXCEPT
                        !.results[snap] = r.results,
                        !.ran[snap] = [f \in DOMAIN @ |-> @[f] + Runs(r.ran, f)],
                        !.last = Last("run_dependencies", snap, m, r.ran, 0)]
    /\ UNCHANGED <<legacy, applied>>
    /\ UNCHANGED bsonvars

\* RunMemoryPlugin for a function that diffs again over an entry it finds.
RunMemoryPlugin_Overwrites ==
    /\ \E m \in analysis.enabled :
          LET deps == MEMORY_ANALYSIS_DEPENDENCIES[m]
              clean == analysis.results.clean
              new_results == analysis.results.new
          IN  /\ ~analysis.is_clean
              /\ \A i \in 1..Len(deps) :
                    deps[i] \in (DOMAIN clean) \cap (DOMAIN new_results)
              /\ LET a == analysis_func(m, clean, new_results, deps)
                     b == analysis_func(m, a.new, a.old, deps)
                 IN  analysis' =
                        [analysis EXCEPT
                            !.diffs = Store(@, m, [desc |-> Desc(m),
                                                   new |-> a.result,
                                                   deleted |-> b.result,
                                                   star |-> "no"]),
                            !.results = [clean |-> b.new, new |-> b.old],
                            !.last = Last("run_memory_plugin", "", m, << >>, 2)]
    /\ UNCHANGED <<legacy, applied>>
    /\ UNCHANGED bsonvars

\* run_memory_plugin(mem_analysis, memfunc, clean, new_results), called
\* with the dependencies of memfunc resolved in both snapshots.
RunMemoryPlugin ==
    /\ \E m \in analysis.enabled :
          LET deps == MEMORY_ANALYSIS_DEPENDENCIES[m]
              clean == analysis.results.clean
              new_results == analysis.results.new
          IN  /\ ~analysis.is_clean
              /\ \A i \in 1..Len(deps) :
                    deps[i] \in (DOMAIN clean) \cap (DOMAIN new_results)
              /\ IF m \notin DOMAIN analysis.diffs
                 THEN LET a == analysis_func(m, clean, new_results, deps)
                          b == analysis_func(m, a.new, a.old, deps)
                      IN  analysis' =
                             [analysis EXCEPT
                                 !.diffs = Store(@, m, [desc |-> Desc(m),
                                                        new |-> a.result,
                                                        deleted |-> b.result,
                                                        star |-> "no"]),
                                 !.results = [clean |-> b.new, new |-> b.old],
                                 !.last = Last("run_memory_plugin", "", m,
                                               << >>, 2)]
                 ELSE analysis' =
                         [analysis EXCEPT
                             !.last = Last("run_memory_plugin", "", m, << >>, 0)]
    /\ UNCHANGED <<legacy, applied>>
    /\ UNCHANGED bsonvars

\* mem_analysis["diffs"]["injected_thread"] and ["injected_dll"] as the
\* pass at a trigger stores them before it looks at smart_analysis.
InjectedEntry(desc, new, star) ==
    [new |-> new, deleted |-> << >>, star |-> star, desc |-> desc]

Injected ==
    [injected_thread |-> InjectedEntry("Shows the injected thread", << >>, "no"),
     injected_dll |->
        InjectedEntry("Finds the injected dll and dumps it", << >>, "no")]

\* vol.threads(pid=pid)["data"]
Threads == <<[TID |-> 1], [TID |-> 2]>>

\* for t in threads: if t["TID"] == tid: ...["new"].append(t)
ThreadsOf(tid) == SelectSeq(Threads, LAMBDA t : t.TID = tid)

\* The follow-up of the trigger, run under smart_analysis: the entry it
\* stores among the injected ones.  tid: the ThreadId of the trigger's
\* arguments; dlldump: the data of vol.dlldump; dis: the disassembly, "None"
\* when disasm_from_memory raised.
FollowUp(trigger, injected, tid, dlldump, dis) ==
    CASE trigger = WriteRemoteLoad ->
           [injected EXCEPT !.injected_dll =
               InjectedEntry("Finds the injected dll and dumps it", dlldump,
                             "yes")]
      [] trigger = SetCtxResume ->
           [injected EXCEPT !.injected_thread =
               InjectedEntry("Shows the injected thread", ThreadsOf(tid),
                             "yes")]
      [] trigger = WriteRemote ->
           [injected EXCEPT !.injected_thread =
               [new |-> ThreadsOf(tid), deleted |-> << >>, star |-> "yes",
                desc |-> "Shows the injected thread", disassembly |-> dis]]
      [] OTHER -> injected

\* Whether the trigger has a follow-up.
HasFollowUp(trigger) == trigger \in {WriteRemoteLoad, SetCtxResume, WriteRemote}

\* The loop of run_memory_analysis over the analyses has gone through every
\* enabled one: in the clean pass their facets are resolved, in a pass at a
\* trigger each has its entry.
LoopDone ==
    IF analysis.is_clean
    THEN \A m \in analysis.enabled :
            \A i \in 1..Len(MEMORY_ANALYSIS_DEPENDENCIES[m]) :
               MEMORY_ANALYSIS_DEPENDENCIES[m][i] \in DOMAIN analysis.results.clean
    ELSE analysis.enabled \subseteq DOMAIN analysis.diffs

\* Escalate for a pass that runs the follow-up of its trigger whatever
\* run_smart_plugins says.
Escalate_AlwaysFollowsUp ==
    /\ ~analysis.done
    /\ LoopDone
    /\ IF analysis.is_clean
       THEN analysis' = [analysis EXCEPT
                            !.done = TRUE,
                            !.last = Last("escalate", "", "", << >>, 0)]
       ELSE \E tid \in {1, 3} : \E found \in BOOLEAN :
               analysis' =
                  [analysis EXCEPT
                      !.diffs = [m \in DOMAIN @ |->
                                    IF analysis.smart /\ m \in analysis.plugins
                                    THEN [@[m] EXCEPT !.star = "yes"]
                                    ELSE @[m]],
                      !.injected =
                          FollowUp(analysis.trigger, Injected, tid,
                                   IF found THEN <<"inj.dll">> ELSE << >>,
                                   IF found THEN "asm" ELSE "None"),
                      !.followup =
                          IF HasFollowUp(analysis.trigger)
                          THEN analysis.trigger ELSE "",
                      !.done = TRUE,
                      !.last = Last("escalate", "", "", << >>, 0)]
    /\ UNCHANGED <<legacy, applied>>
    /\ UNCHANGED bsonvars

\* The end of run_memory_analysis, once the loop is through.  The clean pass
\* returns what it has.  A pass at a trigger stores the two injected
\* entries; with smart_analysis, the entries there are of the plugins of
\* the trigger are starred and the follow-up of the trigger is run.
Escalate ==
    /\ ~analysis.done
    /\ LoopDone
    /\ IF analysis.is_clean
       THEN analysis' = [analysis EXCEPT
                            !.done = TRUE,
                            !.last = Last("escalate", "", "", << >>, 0)]
       ELSE \E tid \in {1, 3} : \E found \in BOOLEAN :
               analysis' =
                  [analysis EXCEPT
                      !.diffs = [m \in DOMAIN @ |->
                                    IF analysis.smart /\ m \in analysis.plugins
                                    THEN [@[m] EXCEPT !.star = "yes"]
                                    ELSE @[m]],
                      !.injected =
                          IF analysis.smart
                          THEN FollowUp(analysis.trigger, Injected, tid,
                                        IF found THEN <<"inj.dll">> ELSE << >>,
                                        IF found THEN "asm" ELSE "None")
                          ELSE Injected,
                      !.followup =
                          IF analysis.smart /\ HasFollowUp(analysis.trigger)
                          THEN analysis.trigger ELSE "",
                      !.done = TRUE,
                      !.last = Last("escalate", "", "", << >>, 0)]
    /\ UNCHANGED <<legacy, applied>>
    /\ UNCHANGED bsonvars

AnalysisNext ==
    \/ RunDependencies
    \/ RunMemoryPlugin
    \/ Escalate

AnalysisSpec == AnalysisInit /\ [][AnalysisNext]_vars

\* C18: over any sequence of run_dependencies calls on a results mapping,
\* each facet is computed at most once; a call leaves every facet that is
\* present as it is and does not compute it, adds exactly the requested
\* dependencies that were absent, and touches nothing else.
C18_FacetsComputedOnce ==
    [][ /\ \A s \in {"clean", "new"} : \A f \in DOMAIN analysis'.ran[s] :
              analysis'.ran[s][f] <= 1
        /\ analysis'.last.op = "run_dependencies"
           => LET s == analysis'.last.snap
                  deps == MEMORY_ANALYSIS_DEPENDENCIES[analysis'.last.memfunc]
              IN  /\ \A f \in DOMAIN analysis.results[s] :
                        /\ analysis'.results[s][f] = analysis.results[s][f]
                        /\ analysis'.ran[s][f] = analysis.ran[s][f]
                  /\ DOMAIN analysis'.results[s]
                        = (DOMAIN analysis.results[s]) \cup Set(deps)
                  /\ \A f \in Set(deps) \ DOMAIN analysis.results[s] :
                        /\ analysis'.ran[s][f] = analysis.ran[s][f] + 1
                        /\ analysis'.results[s][f] = analysis.dump[s][f]
                  /\ \A o \in {"clean", "new"} \ {s} :
                        /\ analysis'.results[o] = analysis.results[o]
                        /\ analysis'.ran[o] = analysis.ran[o]
                  /\ analysis'.diffs = analysis.diffs ]_vars

\* The dependencies of an analysis were requested again on a snapshot that
\* a diff had written to: no plugin ran, and the snapshot is still not what
\* the plugin returns.
C18_Witness ==
    /\ analysis # << >>
    /\ analysis.last.op = "run_dependencies"
    /\ analysis.last.ran = << >>
    /\ \E f \in DOMAIN analysis.results[analysis.last.snap] :
          /\ analysis.ran[analysis.last.snap][f] = 1
          /\ analysis.results[analysis.last.snap][f]
                # analysis.dump[analysis.last.snap][f]

\* C19: run_memory_plugin writes the entry of an analysis once: without an
\* entry it stores desc, new, deleted and star "no", and only that entry;
\* with one it does not call the diff function and leaves the entry, its
\* new and deleted lists and its star, as it is.
C19_DiffEntriesWriteOnce ==
    [][ analysis'.last.op = "run_memory_plugin"
        => LET m == analysis'.last.memfunc
           IN  /\ \A k \in DOMAIN analysis.diffs :
                     /\ k \in DOMAIN analysis'.diffs
                     /\ analysis'.diffs[k] = analysis.diffs[k]
               /\ DOMAIN analysis'.diffs = (DOMAIN analysis.diffs) \cup {m}
               /\ m \in DOMAIN analysis.diffs
                  => /\ analysis'.last.invoked = 0
                     /\ analysis'.results = analysis.results
               /\ m \notin DOMAIN analysis.diffs
                  => /\ analysis'.last.invoked > 0
                     /\ DOMAIN analysis'.diffs[m]
                           = {"desc", "new", "deleted", "star"}
                     /\ analysis'.diffs[m].star = "no" ]_vars

\* run_memory_plugin was called for the handle diff, whose entry had been
\* starred and holds new handles: the diff function was not called and the
\* entry is as it was.
C19_Witness ==
    /\ analysis # << >>
    /\ analysis.last.op = "run_memory_plugin"
    /\ analysis.last.invoked = 0
    /\ analysis.last.memfunc = "diff_handles"
    /\ analysis.diffs["diff_handles"].star = "yes"
    /\ analysis.diffs["diff_handles"].new # {}

\* C20: a diff function has no effect on its inputs and gives the same
\* output when called again: whatever diffs have run, every facet of the
\* two snapshots is as the plugin returned it, and calling the diff
\* function of an entry again on the snapshots returns the lists the
\* entry holds.
C20_DiffsLeaveInputsUnchanged ==
    analysis # << >>
    => /\ \A s \in {"clean", "new"} : \A f \in DOMAIN analysis.results[s] :
             analysis.results[s][f] = analysis.dump[s][f]
       /\ \A m \in DOMAIN analysis.diffs :
             LET deps == MEMORY_ANALYSIS_DEPENDENCIES[m]
             IN  /\ analysis_func(m, analysis.results.clean,
                                  analysis.results.new, deps).result
                       = analysis.diffs[m].new
                 /\ analysis_func(m, analysis.results.new,
                                  analysis.results.clean, deps).result
                       = analysis.diffs[m].deleted

\* The dict d and the reported record r have the same keys with the same
\* values.
SameItems(d, r) ==
    /\ Keys(d) = DOMAIN r
    /\ \A i \in 1..Len(d) : r[d[i][1]] = d[i][2]

\* The dicts d and e have the same keys with the same values.
SameDict(d, e) ==
    /\ Keys(d) = Keys(e)
    /\ \A key \in Keys(d) : Get(d, key) = Get(e, key)

\* The dicts of the facets deps of a snapshot.
DictsOf(snapshot, deps) ==
    UNION {Set(snapshot[deps[i]].data) : i \in 1..Len(deps)}

\* reported holds a record for exactly the dicts of the facets deps of to
\* that no dict of the facets deps of from equals.
SetDifference(reported, from, to, deps) ==
    /\ \A r \in reported :
          /\ \E d \in DictsOf(to, deps) : SameItems(d, r)
          /\ ~\E d \in DictsOf(from, deps) : SameItems(d, r)
    /\ \A d \in DictsOf(to, deps) :
          (~\E e \in DictsOf(from, deps) : SameDict(d, e))
          => \E r \in reported : SameItems(d, r)

\* The analyses that diff with get_new_objects.
GenericDiffs == {m \in DOMAIN MEMORY_ANALYSIS_DEPENDENCIES :
                    m \notin DOMAIN MEMORY_ANALYSIS_FUNCTIONS}

\* C21: the generic diff returns the set difference of the records of new
\* minus those of old, over all facets of the dependency list, whatever
\* the order of the fields and the order or repetition of the records: the
\* new list of an entry is the difference one way, its deleted list the
\* difference the other way and what a diff with the snapshots swapped
\* reports as new, and no record of both snapshots is on either list.
C21_GenericDiffIsSetDifference ==
    analysis # << >>
    => \A m \in GenericDiffs \cap DOMAIN analysis.diffs :
          LET deps == MEMORY_ANALYSIS_DEPENDENCIES[m]
              old == analysis.dump.clean
              new == analysis.dump.new
              entry == analysis.diffs[m]
          IN  /\ SetDifference(entry.new, old, new, deps)
              /\ SetDifference(entry.deleted, new, old, deps)
              /\ entry.deleted = get_new_objects(new, old, deps).result
              /\ entry.new \cap entry.deleted = {}

\* The socket diff ran on a dump whose new snapshot repeats a socket, holds
\* a record of the old connections among its sockets with the fields in
\* another order, and has lost a socket: it reports new and deleted
\* records.
C21_Witness ==
    /\ analysis # << >>
    /\ "diff_sockets" \in DOMAIN analysis.diffs
    /\ analysis.diffs["diff_sockets"].new # {}
    /\ analysis.diffs["diff_sockets"].deleted # {}
    /\ \E d \in Set(analysis.dump.new["sockets"].data) :
          \E e \in Set(analysis.dump.clean["connections"].data) :
             d # e /\ SameDict(d, e)
    /\ \E i, j \in 1..Len(analysis.dump.new["sockets"].data) :
          /\ i # j
          /\ analysis.dump.new["sockets"].data[i]
                = analysis.dump.new["sockets"].data[j]

\* The identity fields of the analyses that diff with get_new_by_field.
IdentityFields ==
    [diff_handles |-> {"process_id", "handle_value"},
     diff_timers |-> {"offset"},
     diff_mutants |-> {"mutant_name"},
     diff_processes |-> {"process_id"},
     diff_services |-> {"service_name"}]

\* The dicts d and e have the same values in fields.
Matches(d, e, fields) == \A f \in fields : Get(d, f) = Get(e, f)

\* reported holds a record for exactly the dicts of the facet dep of to
\* that no dict of the facet dep of from matches on fields.
NewByField(reported, from, to, dep, fields) ==
    /\ \A r \in reported :
          \E d \in Set(to[dep].data) :
             /\ SameItems(d, r)
             /\ ~\E e \in Set(from[dep].data) : Matches(d, e, fields)
    /\ \A d \in Set(to[dep].data) :
          (~\E e \in Set(from[dep].data) : Matches(d, e, fields))
          => \E r \in reported : SameItems(d, r)

\* C22: a field-matching diff (handles, timers, mutants, processes,
\* services) reports a record of new only if no record of old has the same
\* values in all identity fields of the facet, and reports every record of
\* new that has no such match; a record that differs from one of old in
\* other fields only is not reported.
C22_FieldMatchingDiff ==
    analysis # << >>
    => \A m \in (DOMAIN IdentityFields) \cap (DOMAIN analysis.diffs) :
          LET dep == MEMORY_ANALYSIS_DEPENDENCIES[m][1]
              old == analysis.dump.clean
              new == analysis.dump.new
              entry == analysis.diffs[m]
          IN  /\ NewByField(entry.new, old, new, dep, IdentityFields[m])
              /\ NewByField(entry.deleted, new, old, dep, IdentityFields[m])

\* The handle diff ran on a dump in which a handle of the clean snapshot
\* has another count in the new one and a handle of a new value has
\* appeared in the same process: it reports the latter and not the former.
C22_Witness ==
    /\ analysis # << >>
    /\ "diff_handles" \in DOMAIN analysis.diffs
    /\ analysis.diffs["diff_handles"].new # {}
    /\ \E d \in Set(analysis.dump.new["handles"].data) :
          /\ \E e \in Set(analysis.dump.clean["handles"].data) :
                /\ Matches(d, e, IdentityFields["diff_handles"])
                /\ ~SameDict(d, e)
          /\ ~\E r \in analysis.diffs["diff_handles"].new : SameItems(d, r)
    /\ \E r \in analysis.diffs["diff_handles"].new :
          \E e \in Set(analysis.dump.clean["handles"].data) :
             r["process_id"] = Get(e, "process_id")

\* The process proc has loaded a module of the path name.
Loaded(proc, name) ==
    \E module \in Set(proc.loaded_modules) : module.dll_full_name = name

\* reported holds, for every process of to that has a process of the same
\* id in from, exactly the modules whose path that process of from has not
\* loaded, each with the id and name of its process.
NewDlls(reported, from, to) ==
    /\ \A r \in Set(reported) :
          \E proc \in Set(to["dlllist"].data) :
             /\ r.process_id = proc.process_id
             /\ r.process_name = proc.process_name
             /\ Loaded(proc, r.dll_full_name)
             /\ \E old_p \in Set(from["dlllist"].data) :
                   /\ old_p.process_id = proc.process_id
                   /\ ~Loaded(old_p, r.dll_full_name)
    /\ \A proc \in Set(to["dlllist"].data) :
          \A old_p \in Set(from["dlllist"].data) :
             \A module \in Set(proc.loaded_modules) :
                (/\ old_p.process_id = proc.process_id
                 /\ ~Loaded(old_p, module.dll_full_name))
                => \E r \in Set(reported) :
                      /\ r.dll_full_name = module.dll_full_name
                      /\ r.process_id = proc.process_id

\* The dump of the scenario: process 4 has loaded A, and then A and B.
ScenarioDump ==
    Dump([dlllist |-> Facet(<<DllProc(4, "a.exe", <<Module("A")>>)>>)],
         [dlllist |-> Facet(<<DllProc(4, "a.exe", <<Module("A"),
                                                   Module("B")>>)>>)])

\* C23: the DLL-list diff matches the processes of the two snapshots by
\* process id and reports, for each process it matches, exactly the modules
\* whose path is not among those of the old process, each with the id of
\* its process; for process 4 with A, then with A and B, new is B of process
\* 4 and deleted is empty.
C23_DllListDiff ==
    (analysis # << >> /\ "diff_dlllist" \in DOMAIN analysis.diffs)
    => LET entry == analysis.diffs["diff_dlllist"]
       IN  /\ NewDlls(entry.new, analysis.dump.clean, analysis.dump.new)
           /\ NewDlls(entry.deleted, analysis.dump.new, analysis.dump.clean)
           /\ analysis.dump = ScenarioDump
              => /\ entry.new = <<[dll_full_name |-> "B", process_id |-> 4,
                                   process_name |-> "a.exe"]>>
                 /\ entry.deleted = << >>

\* The DLL-list diff ran on a dump in which a process of both snapshots has
\* loaded a module and a process of the new snapshot only has modules: it
\* reports the module of the former and none of the latter.
C23_Witness ==
    /\ analysis # << >>
    /\ "diff_dlllist" \in DOMAIN analysis.diffs
    /\ analysis.diffs["diff_dlllist"].new # << >>
    /\ analysis.diffs["diff_dlllist"].deleted # << >>
    /\ \E proc \in Set(analysis.dump.new["dlllist"].data) :
          /\ proc.loaded_modules # << >>
          /\ ~\E old_p \in Set(analysis.dump.clean["dlllist"].data) :
                 old_p.process_id = proc.process_id
          /\ ~\E r \in Set(analysis.diffs["diff_dlllist"].new) :
                 r.process_id = proc.process_id

\* The connection record r is on the exclusion list.
Excluded(r) ==
    \/ r.remote_port = 2042
    \/ r.local_port = 8000
    \/ r.remote_address = "293.268.122.1"

\* C24: the connection diff reports no record of the exclusion list (remote
\* port 2042, local port 8000, the excluded remote address), whether or not
\* old has it, and reports every other record that the generic diff
\* reports.
C24_ConnectionDiffExcludes ==
    (analysis # << >> /\ "diff_connections" \in DOMAIN analysis.diffs)
    => LET deps == MEMORY_ANALYSIS_DEPENDENCIES["diff_connections"]
           old == analysis.dump.clean
           new == analysis.dump.new
           entry == analysis.diffs["diff_connections"]
       IN  /\ \A r \in entry.new \cup entry.deleted : ~Excluded(r)
           /\ entry.new = {r \in get_new_objects(old, new, deps).result :
                              ~Excluded(r)}
           /\ entry.deleted = {r \in get_new_objects(new, old, deps).result :
                                  ~Excluded(r)}

\* The connection diff ran on a dump whose new snapshot has, and whose
\* clean snapshot has not, a connection to remote port 2042, one from local
\* port 8000, one to the excluded address and one of none of these: it
\* reports the last.
C24_Witness ==
    /\ analysis # << >>
    /\ "diff_connections" \in DOMAIN analysis.diffs
    /\ analysis.diffs["diff_connections"].new # {}
    /\ LET found == get_new_objects(analysis.dump.clean, analysis.dump.new,
                                     <<"connections">>).result
       IN  /\ \E r \in found : r.remote_port = 2042
           /\ \E r \in found : r.local_port = 8000
           /\ \E r \in found : r.remote_address = "293.268.122.1"
           /\ found \ analysis.diffs["diff_connections"].new # {}

\* C25: with smart escalation enabled for the trigger of the pass, once
\* run_memory_analysis has run every facet of the escalation list of the
\* trigger has an entry among the diffs, and the entry has star "yes".
C25_EscalationListStarred ==
    (analysis # << >> /\ analysis.done /\ analysis.smart)
    => \A plugin \in analysis.plugins :
          /\ plugin \in DOMAIN analysis.diffs
          /\ analysis.diffs[plugin].star = "yes"

(***************************************************************************)
(* expand_format on the formats a table may hold.                          *)
(***************************************************************************)
MaxFormat == 4      \* characters of a format

FormatChars == {"0", "1", "2", "s", "i"}

\* The formats of at most MaxFormat characters.
Formats == UNION {[1..n -> FormatChars] : n \in 0..MaxFormat}

\* applied: the format fs, and out, what expand_format(fs) gave, once it
\* has been called.
FormatInit ==
    /\ BsonIdle
    /\ legacy = << >>
    /\ analysis = << >>
    /\ \E fs \in Formats :
          applied = [fs |-> fs, out |-> << >>, done |-> FALSE]

ExpandFormat ==
    /\ ~applied.done
    /\ applied' = [applied EXCEPT !.out = expand_format(applied.fs),
                                      !.done = TRUE]
    /\ UNCHANGED <<legacy, analysis>>
    /\ UNCHANGED bsonvars

FormatNext == ExpandFormat

FormatSpec == FormatInit /\ [][FormatNext]_vars

\* The expansion as a rule on the format: a digit followed by a format
\* letter becomes that many of the letter, any other character is copied.
RECURSIVE Expanded(_)
Expanded(fs) ==
    IF fs = << >> THEN << >>
    ELSE IF IsDigit(Head(fs)) /\ Len(fs) >= 2 /\ ~IsDigit(fs[2])
    THEN Repeat(fs[2], DigitValue(Head(fs))) \o Expanded(Tail(Tail(fs)))
    ELSE <<Head(fs)>> \o Expanded(Tail(fs))

\* Every digit of fs is followed by a format letter.
DigitsBeforeLetters(fs) ==
    \A i \in 1..Len(fs) :
       IsDigit(fs[i]) => (i < Len(fs) /\ ~IsDigit(fs[i + 1]))

\* The argument descriptors of fs: a letter counts once, or as often as
\* the digit before it says.
Descriptors(fs) ==
    Cardinality({q \in (1..Len(fs)) \X (1..9) :
                   /\ ~IsDigit(fs[q[1]])
                   /\ q[2] <= (IF q[1] > 1 /\ IsDigit(fs[q[1] - 1])
                               THEN DigitValue(fs[q[1] - 1]) ELSE 1)})

\* C26 as stated: in any format a digit followed by a format letter is
\* expanded into that many of the letter, and every other character is
\* copied.
C26_EveryDigitExpands ==
    (applied # << >> /\ applied.done)
    => applied.out = Expanded(applied.fs)

\* C26: in a format whose digits are each followed by a format letter,
\* expand_format expands every digit N with its letter into N of that
\* letter and copies every other character ("2s1i" gives "ssi", "2s" gives
\* "ss"), and the expansion is as long as the format has argument
\* descriptors.
C26_ExpansionOfDigits ==
    (applied # << >> /\ applied.done
        /\ DigitsBeforeLetters(applied.fs))
    => /\ applied.out = Expanded(applied.fs)
       /\ Len(applied.out) = Descriptors(applied.fs)
       /\ \A k \in 1..Len(applied.out) : ~IsDigit(applied.out[k])
       /\ applied.fs = <<"2", "s", "1", "i">>
          => applied.out = <<"s", "s", "i">>
       /\ applied.fs = <<"2", "s">> => applied.out = <<"s", "s">>

\* "2s1i" has been expanded to "ssi".
C26_Witness ==
    /\ applied # << >>
    /\ applied.done
    /\ applied.fs = <<"2", "s", "1", "i">>
    /\ applied.out = <<"s", "s", "i">>

(***************************************************************************)
(* The converters on the integers of 32 bits.                              *)
(***************************************************************************)
MaxSmall == 8       \* the small integers converted, either side of 0

\* Signed integers of 32 bits: the ends of the range, those about a change
\* of the high half, and the small ones.
Ints32 ==
    {-2147483647 - 1, -2147483647, -65537, -65536, -65535,
     65535, 65536, 65537, 2147483646, 2147483647}
    \cup (-MaxSmall..MaxSmall)

\* The type an argument is sent with: none, a pointer, one that
\* TYPECONVERTERS does not have.
TypeInfos == {"", "p", "z"}

\* applied: the integer v and the type of its argument, and out, what the
\* converter of check_names_for_typeinfo gave, once it has been called.
ConverterInit ==
    /\ BsonIdle
    /\ legacy = << >>
    /\ analysis = << >>
    /\ \E v \in Ints32, typeinfo \in TypeInfos :
          applied = [v |-> v, typeinfo |-> typeinfo, out |-> << >>,
                     done |-> FALSE]

ConvertArgument ==
    /\ ~applied.done
    /\ applied' = [applied EXCEPT
                      !.out = converter(applied.typeinfo, applied.v),
                      !.done = TRUE]
    /\ UNCHANGED <<legacy, analysis>>
    /\ UNCHANGED bsonvars

ConverterNext == ConvertArgument

ConverterSpec == ConverterInit /\ [][ConverterNext]_vars

\* The value of hex digits, most significant first.
HexValue(digits) ==
    LET val(c) == (CHOOSE k \in 1..16 : Hex[k] = c) - 1
    IN  Sum([i \in 1..Len(digits) |->
                val(digits[i]) * (16 ^ (Len(digits) - i))])

\* <<high, low>> is v + 2^32 for a negative v of 32 bits, and so within
\* 2^31..2^32-1.
FixedUp(halves, v) ==
    /\ halves[1] \in 32768..65535
    /\ halves[2] \in 0..65535
    /\ (halves[1] - 65536) * 65536 + halves[2] = v

\* C27: the converter of an argument maps a negative integer v to
\* v + 2^32 and leaves any other integer as it is (-1 gives 0xFFFFFFFF, 5
\* gives 5), so that a signed integer of 32 bits gives a result within
\* 0..2^32-1; the converter of a pointer writes that result as eight hex
\* digits, padded with zeros.
C27_SignedToUnsigned ==
    (applied # << >> /\ applied.done)
    => /\ applied.typeinfo # "p"
          => /\ applied.v >= 0 => applied.out = applied.v
             /\ applied.v < 0 => FixedUp(applied.out, applied.v)
             /\ applied.v = -1 => applied.out = <<65535, 65535>>
       /\ applied.typeinfo = "p"
          => /\ Len(applied.out) = 9
             /\ applied.out[1] = "0x"
             /\ LET high == HexValue(SubSeq(applied.out, 2, 5))
                    low == HexValue(SubSeq(applied.out, 6, 9))
                IN  /\ applied.v >= 0 => high * 65536 + low = applied.v
                    /\ applied.v < 0 => FixedUp(<<high, low>>, applied.v)
             /\ applied.v = 5
                => applied.out
                      = <<"0x", "0", "0", "0", "0", "0", "0", "0", "5">>

\* -1 was converted as a plain argument and came out as 0xFFFFFFFF.
C27_Witness ==
    /\ applied # << >>
    /\ applied.done
    /\ applied.v = -1
    /\ applied.typeinfo = ""
    /\ applied.out = <<65535, 65535>>

\* The evaluations of the two-step chain trigger named name for the call
\* last decoded.
TwoStepEvaluations(name) ==
    CallsFor(out.trace, "execute_trigger_parameters", name)

\* The positions in h of the entries named name.
Named(h, name) == {i \in 1..Len(h) : h[i].name = name}

\* C28: completing a two-step chain ('NtSetContextThread -> NtResumeThread'
\* or 'WriteProcessMemory -> CreateRemoteThread') removes nothing from Call
\* History: after the call the history is the history before it with the
\* call's own entry appended.  Completing the three-step chain takes two
\* entries out, one WriteProcessMemory and one CreateRemoteThread.  Hence a
\* CreateRemoteThread call decoded while the history holds a
\* WriteProcessMemory entry completes the two-step chain, however many
\* CreateRemoteThread calls completed it before.
C28_TwoStepRemovesNothing ==
    /\ (Decoded("NtResumeThread") \/ Decoded("CreateRemoteThread"))
       => apis = out.before \o <<ThisEntry>>
    /\ (Decoded("CreateRemoteThread")
        /\ Named(out.before, "WriteProcessMemory") # {})
       => Cardinality(TwoStepEvaluations(WriteRemote)) = 1
    /\ (Decoded("LdrLoadDll") /\ ChainEvaluations # {} /\ out.ret = "True")
       => /\ Len(apis) = Len(out.before) - 1
          /\ Cardinality(Named(apis, "WriteProcessMemory"))
                = Cardinality(Named(out.before, "WriteProcessMemory")) - 1
          /\ Cardinality(Named(apis, "CreateRemoteThread"))
                = Cardinality(Named(out.before, "CreateRemoteThread")) - 1

\* C28, reached: a CreateRemoteThread call completed the two-step chain on
\* a history that holds one WriteProcessMemory entry and a
\* CreateRemoteThread entry recorded after it, which completed the chain
\* before; the write is still there.
C28_Witness ==
    /\ Decoded("CreateRemoteThread")
    /\ out.ret = "True"
    /\ Cardinality(TwoStepEvaluations(WriteRemote)) = 1
    /\ \E w \in Named(out.before, "WriteProcessMemory") :
          /\ Named(out.before, "WriteProcessMemory") = {w}
          /\ \E c \in Named(out.before, "CreateRemoteThread") : c > w
    /\ Cardinality(Named(apis, "WriteProcessMemory")) = 1
    /\ Cardinality(Named(apis, "CreateRemoteThread")) >= 2

\* The calls made for the message being decoded in this step that call fn
\* for the three-step chain.
ChainCalls(fn) == CallsFor(out'.trace, fn, WriteRemoteLoad)

\* The message decoded before this step was an LdrLoadDll call that
\* completed the three-step chain on the only WriteProcessMemory entry of
\* Call History.
ChainJustConsumed ==
    /\ Decoded("LdrLoadDll")
    /\ ChainEvaluations # {}
    /\ out.ret = "True"
    /\ Cardinality(Named(out.before, "WriteProcessMemory")) = 1

\* C29: when an LdrLoadDll call completes the three-step chain and the
\* chain's rule does not fire (triggered dumps off, rule absent, disabled,
\* or fire count used up), the message is done at once and one
\* WriteProcessMemory and one CreateRemoteThread entry are gone from Call
\* History all the same; an LdrLoadDll call that follows a completed chain
\* whose write was the only one in history does not evaluate the chain
\* again, whatever the rule says by then.
C29_ChainConsumedUnfired ==
    [][(pc = "read" /\ server /\ out'.type = "call"
        /\ out'.api = "LdrLoadDll")
       => /\ (ChainCalls("execute_trigger_parameters") # {}
               /\ ChainCalls("reduce_times") = {})
             => /\ out'.ret = "True"
                /\ out'.rule \in {"off", "absent", "disabled"}
                   \/ times[WriteRemoteLoad] = 0
                /\ Len(apis') = Len(apis) - 1
                /\ Cardinality(Named(apis', "WriteProcessMemory"))
                      = Cardinality(Named(apis, "WriteProcessMemory")) - 1
                /\ Cardinality(Named(apis', "CreateRemoteThread"))
                      = Cardinality(Named(apis, "CreateRemoteThread")) - 1
          /\ ChainJustConsumed
             => ChainCalls("execute_trigger_parameters") = {}
      ]_vars

\* C29, reached: the chain completed for an LdrLoadDll call while its rule
\* was disabled and had fire count left; nothing fired, and the pair is
\* gone from Call History.
C29_Witness ==
    /\ Decoded("LdrLoadDll")
    /\ ChainEvaluations # {}
    /\ out.rule = "disabled"
    /\ times[WriteRemoteLoad] > 0
    /\ fires[WriteRemoteLoad] = 0
    /\ Named(out.before, "WriteProcessMemory") # {}
    /\ Named(apis, "WriteProcessMemory") = {}
    /\ Named(apis, "CreateRemoteThread") = {}

\* The rules whose fire count this step changes.
Decremented == {t \in DOMAIN times : times'[t] # times[t]}

\* The message read in this step is not decoded as a call: an info, debug
\* or new_process message, or a call that is dropped.
NotDecoded ==
    \/ out'.type \in {"info", "debug", "new_process"}
    \/ out'.type = "call" /\ out'.api = ""

\* C30: the calls made for one message hold at most one trigger
\* evaluation, at most one fire-count decrement, at most one dump_memory
\* request and at most two suspend_machine calls, each answered by at most
\* one resume_machine call, the interactive session (which removes the
\* marker) before the breakpoint; every such call follows the evaluation
\* and is made for its trigger.  Reading a message changes at most one fire
\* count, by one.  For an info, debug or new_process message and for a
\* dropped call no trigger is evaluated, no fire count changes, nothing is
\* dumped and the machine is not suspended.
C30_OneEvaluationPerMessage ==
    [][LET tr == out'.trace
           evals == CallsOf(tr, "execute_trigger_parameters")
           susp == CallsOf(tr, "suspend_machine")
       IN  /\ Cardinality(evals) <= 1
           /\ Cardinality(CallsOf(tr, "reduce_times")) <= 1
           /\ Cardinality(CallsOf(tr, "dump_memory")) <= 1
           /\ Cardinality(susp) <= 2
           /\ Cardinality(CallsOf(tr, "resume_machine")) <= Cardinality(susp)
           /\ \A i \in 1..Len(tr) :
                 tr[i].fn \in ActionCalls
                 => \E e \in evals : e < i /\ tr[e].name = tr[i].name
           /\ \A a, b \in susp :
                 a < b => \E r \in CallsOf(tr, "os.remove") : a < r /\ r < b
           /\ Cardinality(Decremented) <= 1
           /\ \A t \in Decremented :
                 /\ times'[t] = times[t] - 1
                 /\ CallsFor(tr, "reduce_times", t) # {}
           /\ (pc = "read" /\ NotDecoded)
              => /\ evals = {}
                 /\ \A i \in 1..Len(tr) : tr[i].fn \notin ActionCalls
                 /\ Decremented = {}
                 /\ fires' = fires
                 /\ suspended' = suspended
                 /\ out'.ret = "True"
      ]_vars

\* C30, reached: one call was evaluated once, fired, dumped memory once,
\* suspended the machine for the interactive session and again for the
\* breakpoint, and is done.
C30_Witness ==
    /\ out.type = "call"
    /\ out.ret = "True"
    /\ Cardinality(CallsOf(out.trace, "execute_trigger_parameters")) = 1
    /\ Cardinality(CallsOf(out.trace, "reduce_times")) = 1
    /\ Cardinality(CallsOf(out.trace, "dump_memory")) = 1
    /\ Cardinality(CallsOf(out.trace, "suspend_machine")) = 2
    /\ Cardinality(CallsOf(out.trace, "resume_machine")) = 2
    /\ suspended = 0

\* The message last read is a call decoded under its schema.
DecodedCall == out.type = "call" /\ out.api # ""

\* C31: a call that passes the schema lookup and the argument count is in
\* Call History exactly once more than before it was read, as the last
\* entry, and is there already while its own trigger evaluation is in
\* progress; so are the bookkeeping calls __process__ and __thread__.  Only
\* a completed three-step chain takes entries out, and never the call's
\* own.  A handler without the history capability has nothing recorded.
\* Messages of type info, debug and new_process and dropped calls leave
\* Call History as it was.
C31_DecodedCallRecordedOnce ==
    /\ (DecodedCall /\ server)
       => /\ Len(apis) > 0
          /\ apis[Len(apis)] = ThisEntry
          /\ Occurrences(apis, ThisEntry)
                = Occurrences(out.before, ThisEntry) + 1
          /\ (out.ret = "pending" \/ out.api # "LdrLoadDll")
             => apis = out.before \o <<ThisEntry>>
    /\ (DecodedCall /\ ~server) => apis = out.before
    /\ (out.type \in {"info", "debug", "new_process"}
        \/ (out.type = "call" /\ out.api = ""))
       => apis = out.before

\* C31, reached: a __process__ call is in Call History, after an earlier
\* entry, while the interactive session of its own trigger waits.
C31_Witness ==
    /\ IsCall("__process__")
    /\ server
    /\ pc = "volshell"
    /\ out.ret = "pending"
    /\ out.before # << >>
    /\ apis = out.before \o <<ThisEntry>>

\* The stars of the entries stored so far, those of the analyses and the
\* injected ones.
Stars ==
    {analysis.diffs[m].star : m \in DOMAIN analysis.diffs}
    \cup {analysis.injected[e].star : e \in DOMAIN analysis.injected}

\* C32: an entry of the diffs has star "yes" only in a pass at a trigger
\* for which smart escalation is enabled, and only once the pass has gone
\* through its escalation; the follow-up of a trigger is run only then.
\* With smart escalation disabled every stored entry has star "no", the
\* injected entries are as they were stored, empty, and no follow-up is
\* run; the clean pass stores no entry at all.
C32_StarOnlyUnderSmartEscalation ==
    analysis # << >>
    => /\ Stars \subseteq {"yes", "no"}
       /\ ("yes" \in Stars \/ analysis.followup # "")
          => /\ analysis.smart
             /\ ~analysis.is_clean
             /\ analysis.done
       /\ (~analysis.smart \/ analysis.is_clean)
          => /\ Stars \subseteq {"no"}
             /\ analysis.followup = ""
             /\ \A e \in DOMAIN analysis.injected :
                   /\ analysis.injected[e].new = << >>
                   /\ analysis.injected[e].deleted = << >>
       /\ analysis.is_clean
          => /\ DOMAIN analysis.diffs = {}
             /\ DOMAIN analysis.injected = {}
       /\ (analysis.done /\ ~analysis.is_clean)
          => DOMAIN analysis.injected = {"injected_thread", "injected_dll"}

\* C32, reached: a pass at the three-step chain with smart escalation has
\* starred the entry of an analysis and run the follow-up, which stored the
\* dumped module with star "yes"; the other entries have star "no".
C32_Witness ==
    /\ analysis # << >>
    /\ analysis.done
    /\ analysis.smart
    /\ analysis.trigger = WriteRemoteLoad
    /\ analysis.followup = WriteRemoteLoad
    /\ analysis.injected.injected_dll.star = "yes"
    /\ analysis.injected.injected_dll.new # << >>
    /\ analysis.injected.injected_thread.star = "no"
    /\ \E m, n \in DOMAIN analysis.diffs :
          /\ analysis.diffs[m].star = "yes"
          /\ analysis.diffs[n].star = "no"

\* C32, the other side reached: a pass at the same trigger without smart
\* escalation is through, with entries of analyses and the two injected
\* entries, all with star "no".
C32_UnstarredPass ==
    /\ analysis # << >>
    /\ analysis.done
    /\ ~analysis.smart
    /\ ~analysis.is_clean
    /\ analysis.trigger = WriteRemoteLoad
    /\ analysis.plugins # {}
    /\ analysis.plugins \subseteq DOMAIN analysis.diffs

\* The process ids of the snapshot snap of the DLL list.
Pids(snap) == {proc.process_id : proc \in Set(snap["dlllist"].data)}

\* The modules reported are modules of processes whose process id both
\* snapshots have: none is of a process of to that from has no process of
\* the same id for.
OnlyMatched(reported, from, to) ==
    /\ \A r \in Set(reported) :
          /\ r.process_id \in Pids(from) \cap Pids(to)
          /\ \E proc \in Set(to["dlllist"].data) :
                /\ proc.process_id = r.process_id
                /\ Loaded(proc, r.dll_full_name)
    /\ \A proc \in Set(to["dlllist"].data) :
          proc.process_id \notin Pids(from)
          => ~\E r \in Set(reported) : r.process_id = proc.process_id

\* C33: the DLL-list diff reports modules only of processes whose process
\* id is in both snapshots: of a process of new with no process of the same
\* id in old none of the loaded modules is reported, and likewise, for the
\* deleted list, of a process of old with none of the same id in new.
C33_OnlyPidMatchedProcesses ==
    (analysis # << >> /\ "diff_dlllist" \in DOMAIN analysis.diffs)
    => LET entry == analysis.diffs["diff_dlllist"]
       IN  /\ OnlyMatched(entry.new, analysis.dump.clean, analysis.dump.new)
           /\ OnlyMatched(entry.deleted, analysis.dump.new,
                          analysis.dump.clean)

\* C33, reached: the new snapshot has a process, with an id old has not,
\* that has loaded a module no process of old has loaded; the diff reports
\* modules, and not this one.
C33_Witness ==
    /\ analysis # << >>
    /\ "diff_dlllist" \in DOMAIN analysis.diffs
    /\ analysis.diffs["diff_dlllist"].new # << >>
    /\ \E proc \in Set(analysis.dump.new["dlllist"].data) :
          /\ proc.process_id \notin Pids(analysis.dump.clean)
          /\ \E module \in Set(proc.loaded_modules) :
                /\ \A old_p \in Set(analysis.dump.clean["dlllist"].data) :
                      ~Loaded(old_p, module.dll_full_name)
                /\ \A r \in Set(analysis.diffs["diff_dlllist"].new) :
                      r.dll_full_name # module.dll_full_name

====
